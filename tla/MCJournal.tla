------------------------------ MODULE MCJournal ------------------------------
(***************************************************************************)
(* The parts of the server that share no state with the extraction         *)
(* pipeline or with each other, in one run: each behaviour is one of one   *)
(* part, the others stay where they begin.  The sets of actors and of      *)
(* things are shared so that one small group of permutations serves all.   *)
(***************************************************************************)
EXTENDS ConversationArchive, Topics, KeyRotation, Introspection, EventStreams,
        ServerLifecycle, RowLocks, HybridSearch, DeployShapes, AttemptLimit,
        ListingPages, AuditTrail, TLC

VARIABLE part  \* the part that a behaviour is about

Symmetry == Permutations(Saves) \cup Permutations(Convs) \cup Permutations(Paths)

\* No two paths of the instance have the same slug as a title.
MCSlug(c) == 1

\* Two messages of every conversation.
MCThread == [c \in LockConvs |-> {2 * c, 2 * c + 1}]

---------------------------------------------------------------------------
(* Where a part with several initial states idles.                         *)
Idles(p) ==
  CASE p = "rotation" -> cell = [i \in Ids |-> NoCell]
    [] p = "life"     -> mode = "server" /\ config = {}
    [] p = "search"   -> /\ keyword = [d \in Docs |-> 0] /\ near = [e \in SEntries |-> 0]
                         /\ corrupt = SConvs
    [] p = "deploy"   -> settings = {}
    [] p = "attempts" -> page = "login"
    [] p = "pages"    -> sort = "newest" /\ newestRow = 0
    [] p = "audit"    -> op = [c \in Writes |-> "append"]

JournalInit ==
  /\ part \in {"archive", "topics", "rotation", "introspection", "streams", "life",
               "locks", "search", "deploy", "attempts", "pages", "audit"}
  /\ ArchiveInit /\ TopicsInit /\ IntroInit /\ StreamsInit /\ LocksInit
  /\ IF part = "rotation" THEN RotationInit ELSE Idles("rotation") /\ RotationInit
  /\ IF part = "life"     THEN LifeInit     ELSE Idles("life") /\ LifeInit
  /\ IF part = "search"   THEN SearchInit   ELSE Idles("search") /\ SearchInit
  /\ IF part = "deploy"   THEN DeployInit   ELSE Idles("deploy") /\ DeployInit
  /\ IF part = "attempts" THEN AttemptInit  ELSE Idles("attempts") /\ AttemptInit
  /\ IF part = "pages"    THEN PagesInit    ELSE Idles("pages") /\ PagesInit
  /\ IF part = "audit"    THEN AuditInit    ELSE Idles("audit") /\ AuditInit

\* A step of one part leaves the others where they are.
OthersRest ==
  /\ part' = part
  /\ part # "archive"       => UNCHANGED archiveVars
  /\ part # "topics"        => UNCHANGED topicsVars
  /\ part # "rotation"      => UNCHANGED rotationVars
  /\ part # "introspection" => UNCHANGED introVars
  /\ part # "streams"       => UNCHANGED streamsVars
  /\ part # "life"          => UNCHANGED lifeVars
  /\ part # "locks"         => UNCHANGED lockVars
  /\ part # "search"        => UNCHANGED searchVars
  /\ part # "deploy"        => UNCHANGED deployVars
  /\ part # "attempts"      => UNCHANGED attemptVars
  /\ part # "pages"         => UNCHANGED pagesVars
  /\ part # "audit"         => UNCHANGED trailVars

JournalNext ==
  \/ part = "archive"       /\ ArchiveNext  /\ OthersRest
  \/ part = "topics"        /\ TopicsNext   /\ OthersRest
  \/ part = "rotation"      /\ RotationNext /\ OthersRest
  \/ part = "introspection" /\ IntroNext    /\ OthersRest
  \/ part = "streams"       /\ StreamsNext  /\ OthersRest
  \/ part = "life"          /\ LifeNext     /\ OthersRest
  \/ part = "locks"         /\ LocksNext    /\ OthersRest
  \/ part = "search"        /\ SearchNext   /\ OthersRest
  \/ part = "deploy"        /\ DeployNext   /\ OthersRest
  \/ part = "attempts"      /\ AttemptNext  /\ OthersRest
  \/ part = "pages"         /\ PagesNext    /\ OthersRest
  \/ part = "audit"         /\ AuditNext    /\ OthersRest

journalVars == <<part, archiveVars, topicsVars, rotationVars, introVars, streamsVars, lifeVars,
                 lockVars, searchVars, deployVars, attemptVars, pagesVars, trailVars>>

JournalSpec == JournalInit /\ [][JournalNext]_journalVars

---------------------------------------------------------------------------
(* Every part has its types.                                               *)
JournalTypeOK ==
  /\ ArchiveTypeOK /\ TopicsTypeOK /\ RotationTypeOK /\ IntroTypeOK /\ StreamsTypeOK
  /\ LifeTypeOK /\ LocksTypeOK /\ SearchTypeOK /\ DeployTypeOK /\ AttemptTypeOK
  /\ PagesTypeOK /\ AuditTypeOK
==============================================================================
