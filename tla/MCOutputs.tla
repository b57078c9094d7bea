------------------------------ MODULE MCOutputs ------------------------------
(***************************************************************************)
(* What is made of a published collection, on small instances, for TLC:    *)
(* the files of its website and of its search engine, its copy on a git    *)
(* forge, its deposit on an archive, its records as they are harvested,    *)
(* what is asked about it in natural language, and the accounts of those   *)
(* who work on it.  The seven share no state that one changes and another  *)
(* reads, so each behaviour follows one of them (focus, chosen in the      *)
(* initial state) and the states to visit add up instead of multiplying.   *)
(***************************************************************************)
EXTENDS SiteBuild, SearchPages, ForgeSync, Deposits, NlSearch, Accounts,
        Harvest

VARIABLE focus

outputVars == <<siteVars, searchPageVars, forgeVars, depositVars, nlVars,
                accountVars, harvestVars, focus>>

Outputs == {"site", "search pages", "forge", "deposit", "question", "account",
            "harvest"}

Only(output) ==
  /\ focus = output /\ UNCHANGED focus
  /\ output # "site" => UNCHANGED siteVars
  /\ output # "search pages" => UNCHANGED searchPageVars
  /\ output # "forge" => UNCHANGED forgeVars
  /\ output # "deposit" => UNCHANGED depositVars
  /\ output # "question" => UNCHANGED nlVars
  /\ output # "account" => UNCHANGED accountVars
  /\ output # "harvest" => UNCHANGED harvestVars

\* What is out of focus starts in one of its initial states.  A harvest starts
\* with a collection on the shelf, some document in each, and nothing late:
\* collections are alike, and so are a start with all late and the other filter.
OutputsInit ==
  /\ focus \in Outputs
  /\ SiteBuildInit /\ SearchPagesInit
  /\ ForgeSyncInit /\ DepositsInit /\ NlSearchInit
  /\ AccountsInit /\ HarvestInit
  /\ focus # "site" => site.mode = "STATIC"
  /\ focus # "forge" =>
       forge = "github" /\ tree = EmptyListing /\ \A r \in Repos : branch[r] = <<>>
  /\ focus # "deposit" => auto
  /\ focus # "question" => limit = 1 /\ spent[0] = NoRow
  /\ focus # "account" => \A m \in Members, l \in Levels : role[m][l] = NoGrant
  /\ late = {}
  /\ IF focus # "harvest" THEN shelf = <<>> /\ \A c \in Slugs : texts[c] = {}
     ELSE /\ shelf # <<>> /\ Head(shelf) = CHOOSE c \in Slugs : TRUE
          /\ \A c \in Slugs : texts[c] # {}

OutputsNext ==
  \/ Only("site") /\ SiteBuildNext
  \/ Only("search pages") /\ SearchPagesNext
  \/ Only("forge") /\ ForgeSyncNext
  \/ Only("deposit") /\ DepositsNext
  \/ Only("question") /\ NlSearchNext
  \/ Only("account") /\ AccountsNext
  \/ Only("harvest") /\ HarvestNext

\* Only the builds of the site are fair: a forge or an archive may never
\* answer.
OutputsSpec ==
  /\ OutputsInit /\ [][OutputsNext]_outputVars
  /\ \A b \in Builds : WF_outputVars(Only("site") /\ BuildStep(b))

OutputsTypeOK ==
  /\ SiteBuildTypeOK /\ SearchPagesTypeOK
  /\ ForgeTypeOK /\ DepositsTypeOK /\ NlSearchTypeOK
  /\ AccountsTypeOK /\ HarvestTypeOK
=============================================================================
