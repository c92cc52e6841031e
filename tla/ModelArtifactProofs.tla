------------------------- MODULE ModelArtifactProofs -------------------------
(***************************************************************************)
(* Theorems of ModelArtifact, for any number of builders, API processes,   *)
(* targets and files.                                                      *)
(***************************************************************************)
EXTENDS ModelArtifact, TLAPS

\* The manifest is a file of its own, and an empty directory is a directory.
LEMMA FilesOfABundle ==
    /\ Manifest \in Bundle /\ Members \subseteq Bundle
    /\ \A i \in DOMAIN Files : Files[i] \in Members
    /\ Empty \in Directories /\ Empty # Absent
    /\ \A f \in Bundle : Empty[f] = None
BY ArtifactAssumption, ValuesAssumption DEF Bundle, Members, Empty, Directories

LEMMA InitInv == Init => Inv
<1> SUFFICES ASSUME Init PROVE Inv
  OBVIOUS
<1>1. IdleBuilder \in BuilderStates
  BY ArtifactAssumption DEF IdleBuilder, BuilderStates, NoTransaction, Transactions, Versions, Ended
<1>2. DownServer \in ServerStates
  BY ArtifactAssumption, FilesOfABundle DEF DownServer, NoAnswer, Refused, ServerStates, Answers,
     Refusals, NoTransaction, Transactions, Versions
<1>3. TypeOK
  BY <1>1, <1>2, ArtifactAssumption DEF Init, TypeOK, Versions
<1>4. BuildsKnowWhatTheyRead
  BY DEF Init, BuildsKnowWhatTheyRead, BuildKnows, IdleBuilder
<1>5. LoadsFollowTheManifest
  BY DEF Init, LoadsFollowTheManifest, LoadFollows, DownServer
<1>6. PublishedIsWhole /\ LoadedIsWhatWasBuilt
  BY DEF Init, PublishedIsWhole, LoadedIsWhatWasBuilt, DownServer
<1> QED
  BY <1>3, <1>4, <1>5, <1>6 DEF Inv

-----------------------------------------------------------------------------
\* A bundle that appears where there was none, whole, disturbs nobody.
LEMMA DiskGrows ==
    ASSUME Inv, UNCHANGED <<committed, server>>,
           disk' \in [Targets -> Directories \cup {Absent}],
           \A t \in Targets : disk[t] # Absent => disk'[t] = disk[t],
           \A t \in Targets : disk[t] = Absent /\ disk'[t] # Absent =>
              \E fingerprint \in Fingerprints : \A f \in Bundle : disk'[t][f] = fingerprint,
           builder' \in [Builders -> BuilderStates],
           temporary' \in [Builders -> Directories \cup {Absent}],
           BuildsKnowWhatTheyRead'
    PROVE  Inv'
<1>1. TypeOK'
  BY DEF Inv, TypeOK
<1>2. LoadsFollowTheManifest'
  BY DEF Inv, LoadsFollowTheManifest, LoadFollows
<1>3. PublishedIsWhole'
  <2> SUFFICES ASSUME NEW t \in Targets, disk'[t] # Absent
               PROVE  \E fingerprint \in Fingerprints : \A f \in Bundle :
                         disk'[t][f] \in {fingerprint, Rotten}
    BY DEF PublishedIsWhole
  <2>1. CASE disk[t] = Absent
    BY <2>1
  <2>2. CASE disk[t] # Absent
    BY <2>2 DEF Inv, PublishedIsWhole
  <2> QED
    BY <2>1, <2>2
<1>4. LoadedIsWhatWasBuilt'
  BY DEF Inv, LoadedIsWhatWasBuilt
<1> QED
  BY <1>1, <1>2, <1>3, <1>4 DEF Inv

\* A step of one builder leaves the others alone.
LEMMA OneBuilds ==
    ASSUME Inv, NEW b \in Builders, NEW w \in BuilderStates, NEW d \in Directories \cup {Absent},
           builder' = [builder EXCEPT ![b] = w], temporary' = [temporary EXCEPT ![b] = d],
           BuildKnows(w, d)
    PROVE  /\ builder' \in [Builders -> BuilderStates]
           /\ temporary' \in [Builders -> Directories \cup {Absent}]
           /\ BuildsKnowWhatTheyRead'
<1>1. /\ builder \in [Builders -> BuilderStates]
      /\ temporary \in [Builders -> Directories \cup {Absent}]
  BY DEF Inv, TypeOK
<1>2. /\ builder' \in [Builders -> BuilderStates]
      /\ temporary' \in [Builders -> Directories \cup {Absent}]
  BY <1>1
<1>3. ASSUME NEW c \in Builders PROVE BuildKnows(builder'[c], temporary'[c])
  <2>1. CASE c = b
    BY <2>1, <1>1
  <2>2. CASE c # b
    BY <2>2, <1>1 DEF Inv, BuildsKnowWhatTheyRead
  <2> QED
    BY <2>1, <2>2
<1>4. BuildsKnowWhatTheyRead'
  BY <1>3 DEF BuildsKnowWhatTheyRead, BuildKnows
<1> QED
  BY <1>2, <1>4

\* A builder that moves on without touching the disk.
LEMMA BuilderAlone ==
    ASSUME Inv, NEW b \in Builders, NEW w \in BuilderStates, NEW d \in Directories \cup {Absent},
           builder' = [builder EXCEPT ![b] = w], temporary' = [temporary EXCEPT ![b] = d],
           UNCHANGED <<committed, disk, server>>, BuildKnows(w, d)
    PROVE  Inv'
<1>1. /\ builder' \in [Builders -> BuilderStates]
      /\ temporary' \in [Builders -> Directories \cup {Absent}]
      /\ BuildsKnowWhatTheyRead'
  BY OneBuilds
<1>2. disk \in [Targets -> Directories \cup {Absent}]
  BY DEF Inv, TypeOK
<1> QED
  BY <1>1, <1>2, DiskGrows

\* What moving to a state changes of a builder.
LEMMA Moved ==
    ASSUME Inv, NEW b \in Builders, NEW pc \in {"failed", "writing", "validated", "done", "crashed"},
           BuilderMoves(b, pc)
    PROVE  LET w == [builder[b] EXCEPT !.pc = pc]
           IN  /\ w \in BuilderStates
               /\ builder' = [builder EXCEPT ![b] = w]
               /\ w.pc = pc /\ w.target = builder[b].target /\ w.read = builder[b].read
BY DEF Inv, TypeOK, BuilderMoves, BuilderStates, Ended

\* A builder that moves to a state and leaves the directory d.
LEMMA MovedAlone ==
    ASSUME Inv, NEW b \in Builders, NEW d \in Directories \cup {Absent},
           NEW pc \in {"failed", "writing", "validated", "done", "crashed"},
           BuilderMoves(b, pc), temporary' = [temporary EXCEPT ![b] = d], UNCHANGED disk,
           BuildKnows([builder[b] EXCEPT !.pc = pc], d)
    PROVE  Inv'
<1> DEFINE w == [builder[b] EXCEPT !.pc = pc]
<1>1. w \in BuilderStates /\ builder' = [builder EXCEPT ![b] = w]
  BY Moved
<1>2. UNCHANGED <<committed, disk, server>>
  BY DEF BuilderMoves
<1>3. BuildKnows(w, d)
  OBVIOUS
<1> HIDE DEF w
<1> QED
  BY <1>1, <1>2, <1>3, BuilderAlone

LEMMA StartBuildInv == ASSUME Inv, NEW b \in Builders, StartBuild(b) PROVE Inv'
<1> PICK t \in Targets :
      builder' = [builder EXCEPT ![b] = [pc |-> "reading", target |-> t, tx |-> FirstQuery,
                                         read |-> None]]
  BY DEF StartBuild
<1> DEFINE w == [pc |-> "reading", target |-> t, tx |-> FirstQuery, read |-> None]
<1>1. w \in BuilderStates
  BY DEF Inv, TypeOK, FirstQuery, BuilderStates, Transactions, Ended
<1>2. temporary[b] = Absent
  BY DEF StartBuild, Inv, BuildsKnowWhatTheyRead, BuildKnows
<1>3. BuildKnows(w, Absent)
  BY DEF BuildKnows, FirstQuery
<1>4. temporary' = [temporary EXCEPT ![b] = Absent]
  BY <1>2 DEF StartBuild, Inv, TypeOK
<1>5. builder' = [builder EXCEPT ![b] = w]
  OBVIOUS
<1> HIDE DEF w
<1> QED
  BY <1>1, <1>3, <1>4, <1>5, BuilderAlone DEF StartBuild

LEMMA ReadCatalogInv == ASSUME Inv, NEW b \in Builders, ReadCatalog(b) PROVE Inv'
<1> DEFINE read == LaterQueries(builder[b].tx)
           pc == IF builder[b].tx.games = 0 THEN "failed" ELSE "checking"
           w == [builder[b] EXCEPT !.read = read, !.pc = pc]
<1>1. /\ builder[b] \in BuilderStates /\ builder[b].tx.games = builder[b].tx.snapshot
      /\ builder[b].pc = "reading" /\ builder[b].target \in Targets
      /\ temporary[b] = Absent
  BY DEF Inv, TypeOK, BuildsKnowWhatTheyRead, BuildKnows, ReadCatalog
<1>2. read \in Fingerprints /\ read[1] = read[2]
  BY <1>1 DEF LaterQueries, BuilderStates, Transactions, Fingerprints
<1>3. pc \in {"failed", "checking"}
  OBVIOUS
<1>4. builder' = [builder EXCEPT ![b] = w]
  BY DEF ReadCatalog
<1> HIDE DEF read, pc
<1>5. [builder[b] EXCEPT !.read = read] \in BuilderStates
  BY <1>1, <1>2 DEF BuilderStates
<1>6. /\ w \in BuilderStates /\ w.pc = pc /\ w.read = read
      /\ w.target = builder[b].target
  BY <1>1, <1>3, <1>5 DEF BuilderStates, Ended
<1>7. temporary' = [temporary EXCEPT ![b] = Absent]
  BY <1>1 DEF ReadCatalog, Inv, TypeOK
<1> HIDE DEF w
<1>8. BuildKnows(w, Absent)
  BY <1>1, <1>2, <1>3, <1>6 DEF BuildKnows
<1> QED
  BY <1>4, <1>6, <1>7, <1>8, BuilderAlone DEF ReadCatalog

\* A build that fails removes its temporary directory.
LEMMA FailedInv ==
    ASSUME Inv, NEW b \in Builders, builder[b].pc # "idle", CleanUp(b), UNCHANGED disk,
           BuilderMoves(b, "failed")
    PROVE  Inv'
<1>1. BuildKnows([builder[b] EXCEPT !.pc = "failed"], Absent)
  BY Moved DEF BuildKnows, Inv, BuildsKnowWhatTheyRead
<1> QED
  BY <1>1, MovedAlone DEF CleanUp

LEMMA CheckTargetInv == ASSUME Inv, NEW b \in Builders, CheckTarget(b) PROVE Inv'
<1>1. builder[b].pc = "checking" /\ temporary[b] = Absent
  BY DEF CheckTarget, Inv, BuildsKnowWhatTheyRead, BuildKnows
<1>2. CASE BuilderMoves(b, "failed") /\ UNCHANGED <<disk, temporary>>
  <2>1. CleanUp(b)
    BY <1>1, <1>2 DEF Inv, TypeOK, CleanUp
  <2> QED
    BY <1>1, <1>2, <2>1, FailedInv
<1>3. CASE BuilderMoves(b, "writing") /\ temporary' = [temporary EXCEPT ![b] = Empty]
           /\ UNCHANGED disk
  <2>1. BuildKnows([builder[b] EXCEPT !.pc = "writing"], Empty)
    BY <1>1, <1>3, Moved, FilesOfABundle DEF BuildKnows, Inv, BuildsKnowWhatTheyRead
  <2> QED
    BY <1>3, <2>1, FilesOfABundle, MovedAlone
<1> QED
  BY <1>2, <1>3 DEF CheckTarget

LEMMA WriteFileInv == ASSUME Inv, NEW b \in Builders, WriteFile(b) PROVE Inv'
<1>1. builder[b].pc = "writing" /\ temporary[b] # Absent /\ BuildKnows(builder[b], temporary[b])
  BY DEF WriteFile, Inv, BuildsKnowWhatTheyRead, BuildKnows
<1>2. temporary[b] \in Directories
  BY <1>1 DEF Inv, TypeOK
<1>3. PICK f \in Bundle : Write(b, f, builder[b].read)
  BY FilesOfABundle DEF WriteFile
<1> DEFINE d == [temporary[b] EXCEPT ![f] = builder[b].read]
<1>4. /\ d \in Directories /\ d # Absent
      /\ \A g \in Bundle : d[g] \in {None, builder[b].read}
  BY <1>1, <1>2, ValuesAssumption DEF Directories, BuildKnows
<1>5. temporary' = [temporary EXCEPT ![b] = d]
  BY <1>3 DEF Write
<1>6. BuilderMoves(b, "writing") /\ UNCHANGED disk
  BY <1>3 DEF WriteFile, Write
<1> HIDE DEF d
<1>7. BuildKnows([builder[b] EXCEPT !.pc = "writing"], d)
  BY <1>1, <1>4, <1>6, Moved DEF BuildKnows
<1> QED
  BY <1>4, <1>5, <1>6, <1>7, MovedAlone

LEMMA FailToWriteInv == ASSUME Inv, NEW b \in Builders, FailToWrite(b) PROVE Inv'
BY FailedInv DEF FailToWrite

LEMMA ValidateBuildInv == ASSUME Inv, NEW b \in Builders, ValidateBuild(b) PROVE Inv'
<1>1. CASE CleanUp(b) /\ BuilderMoves(b, "failed")
  BY <1>1, FailedInv DEF ValidateBuild
<1>2. CASE Whole(temporary[b]) /\ BuilderMoves(b, "validated") /\ UNCHANGED temporary
  <2>1. builder[b].pc = "writing" /\ BuildKnows(builder[b], temporary[b])
    BY DEF ValidateBuild, Inv, BuildsKnowWhatTheyRead
  <2>2. \A f \in Bundle : temporary[b][f] = builder[b].read
    BY <1>2, <2>1, FilesOfABundle DEF BuildKnows, Whole, Bundle
  <2>3. BuildKnows([builder[b] EXCEPT !.pc = "validated"], temporary[b])
    BY <1>2, <2>1, <2>2, Moved DEF BuildKnows
  <2>4. temporary' = [temporary EXCEPT ![b] = temporary[b]]
        /\ temporary[b] \in Directories \cup {Absent}
    BY <1>2 DEF Inv, TypeOK
  <2> QED
    BY <1>2, <2>3, <2>4, MovedAlone DEF ValidateBuild
<1> QED
  BY <1>1, <1>2 DEF ValidateBuild

LEMMA PromoteInv == ASSUME Inv, NEW b \in Builders, Promote(b) PROVE Inv'
<1> DEFINE t == builder[b].target
<1>1. builder[b].pc = "validated" /\ BuildKnows(builder[b], temporary[b])
  BY DEF Promote, Inv, BuildsKnowWhatTheyRead
<1>2. CASE /\ CanRename(b) /\ disk' = [disk EXCEPT ![t] = temporary[b]]
           /\ temporary' = [temporary EXCEPT ![b] = Absent] /\ BuilderMoves(b, "done")
  <2>1. t \in Targets /\ disk[t] = Absent /\ builder[b].read \in Fingerprints
        /\ temporary[b] \in Directories
        /\ \A f \in Bundle : temporary[b][f] = builder[b].read
    BY <1>1, <1>2 DEF BuildKnows, CanRename, Inv, TypeOK
  <2>2. BuildKnows([builder[b] EXCEPT !.pc = "done"], Absent)
    BY <1>1, <1>2, Moved DEF BuildKnows
  <2> DEFINE w == [builder[b] EXCEPT !.pc = "done"]
  <2>3. w \in BuilderStates /\ builder' = [builder EXCEPT ![b] = w]
    BY <1>2, Moved
  <2>4. BuildKnows(w, Absent)
    BY <2>2
  <2> HIDE DEF w
  <2>5. /\ builder' \in [Builders -> BuilderStates]
        /\ temporary' \in [Builders -> Directories \cup {Absent}]
        /\ BuildsKnowWhatTheyRead'
    BY <1>2, <2>3, <2>4, OneBuilds
  <2>6. disk \in [Targets -> Directories \cup {Absent}]
    BY DEF Inv, TypeOK
  <2>7. disk' \in [Targets -> Directories \cup {Absent}]
    BY <1>2, <2>1, <2>6
  <2>8. \A u \in Targets : disk[u] # Absent => disk'[u] = disk[u]
    BY <1>2, <2>1, <2>6
  <2>9. \A u \in Targets : disk[u] = Absent /\ disk'[u] # Absent =>
           \E fingerprint \in Fingerprints : \A f \in Bundle : disk'[u][f] = fingerprint
    BY <1>2, <2>1, <2>6
  <2>10. UNCHANGED <<committed, server>>
    BY <1>2 DEF BuilderMoves
  <2> QED
    BY <2>5, <2>7, <2>8, <2>9, <2>10, DiskGrows
<1>3. CASE UNCHANGED disk /\ CleanUp(b) /\ BuilderMoves(b, "failed")
  BY <1>1, <1>3, FailedInv
<1> QED
  BY <1>2, <1>3 DEF Promote

LEMMA CrashBuilderInv == ASSUME Inv, NEW b \in Builders, CrashBuilder(b) PROVE Inv'
<1> DEFINE w == [builder[b] EXCEPT !.pc = "crashed"]
<1>1. builder[b] \in BuilderStates /\ temporary[b] \in Directories \cup {Absent}
  BY DEF Inv, TypeOK
<1>2. w \in BuilderStates /\ w.pc = "crashed" /\ w.target = builder[b].target
  BY <1>1 DEF BuilderStates, Ended
<1>3. builder' = [builder EXCEPT ![b] = w] /\ builder[b].pc # "idle"
  BY DEF CrashBuilder, Ended
<1> HIDE DEF w
<1>4. BuildKnows(w, temporary[b])
  BY <1>2, <1>3 DEF BuildKnows, Inv, BuildsKnowWhatTheyRead
<1>5. temporary' = [temporary EXCEPT ![b] = temporary[b]]
  BY DEF CrashBuilder, Inv, TypeOK
<1> QED
  BY <1>1, <1>2, <1>3, <1>4, <1>5, BuilderAlone DEF CrashBuilder

-----------------------------------------------------------------------------
\* A step of one process leaves the others alone.
LEMMA OneServes ==
    ASSUME Inv, NEW s \in Servers, NEW w \in ServerStates,
           server' = [server EXCEPT ![s] = w], ServerStays, LoadFollows(w, Configured[s]),
           w.pc = "ready" => \A m \in Members : w.artifact[m] = w.manifest
    PROVE  Inv'
<1>1. server \in [Servers -> ServerStates]
  BY DEF Inv, TypeOK
<1>2. TypeOK'
  BY <1>1 DEF Inv, TypeOK, ServerStays
<1>3. BuildsKnowWhatTheyRead' /\ PublishedIsWhole'
  BY DEF Inv, ServerStays, BuildsKnowWhatTheyRead, BuildKnows, PublishedIsWhole
<1>4. ASSUME NEW u \in Servers
      PROVE  /\ LoadFollows(server'[u], Configured[u])
             /\ server'[u].pc = "ready" =>
                  \A m \in Members : server'[u].artifact[m] = server'[u].manifest
  BY <1>1 DEF Inv, LoadsFollowTheManifest, LoadedIsWhatWasBuilt
<1>5. LoadsFollowTheManifest'
  BY <1>4 DEF LoadsFollowTheManifest, LoadFollows, ServerStays
<1>6. LoadedIsWhatWasBuilt'
  BY <1>4 DEF LoadedIsWhatWasBuilt
<1> QED
  BY <1>2, <1>3, <1>5, <1>6 DEF Inv

\* What is known of the process that takes a step.
LEMMA TheServer ==
    ASSUME Inv, NEW s \in Servers
    PROVE  /\ server[s] \in ServerStates /\ LoadFollows(server[s], Configured[s])
           /\ server[s].pc = "ready" =>
                \A m \in Members : server[s].artifact[m] = server[s].manifest
BY DEF Inv, TypeOK, LoadsFollowTheManifest, LoadedIsWhatWasBuilt

LEMMA UnavailableInv ==
    ASSUME Inv, NEW s \in Servers, NEW why \in Refusals, Unavailable(s, why), ServerStays,
           server[s].pc \in {"down", "verifying"}
    PROVE  Inv'
<1> DEFINE w1 == [server[s] EXCEPT !.pc = "unavailable"]
           w2 == [w1 EXCEPT !.why = why]
           w3 == [w2 EXCEPT !.artifact = Empty]
           w  == [w3 EXCEPT !.manifest = None]
<1>1. w1 \in ServerStates
  BY TheServer DEF ServerStates
<1>2. w2 \in ServerStates
  BY <1>1 DEF ServerStates
<1>3. w3 \in ServerStates
  BY <1>2, FilesOfABundle DEF ServerStates
<1>4. w \in ServerStates
  BY <1>3 DEF ServerStates
<1>5. server' = [server EXCEPT ![s] = w]
  BY TheServer DEF Unavailable, ServerStates
<1>6. w.pc = "unavailable" /\ w.asked = server[s].asked
  BY TheServer DEF ServerStates
<1> HIDE DEF w
<1>7. LoadFollows(w, Configured[s])
  BY <1>6, TheServer DEF LoadFollows
<1> QED
  BY <1>4, <1>5, <1>6, <1>7, OneServes

LEMMA StartServerInv == ASSUME Inv, NEW s \in Servers, StartServer(s) PROVE Inv'
<1> DEFINE t == Configured[s]
           w == [server[s] EXCEPT !.pc = "verifying", !.manifest = disk[t][Manifest]]
<1>1. CASE \E why \in Refusals : Unavailable(s, why)
  BY <1>1, UnavailableInv DEF StartServer
<1>2. CASE /\ t # None /\ disk[t] # Absent /\ disk[t][Manifest] \notin {None, Rotten}
           /\ server' = [server EXCEPT ![s] = w]
  <2>1. t \in Targets
    BY <1>2, ArtifactAssumption
  <2>2. disk[t][Manifest] \in Fingerprints
    BY <1>2, <2>1, FilesOfABundle DEF Inv, TypeOK, Directories
  <2>3. server[s] = DownServer /\ server[s] \in ServerStates
    BY TheServer DEF StartServer, LoadFollows
  <2>4. [server[s] EXCEPT !.pc = "verifying"] \in ServerStates
    BY <2>3 DEF ServerStates
  <2>5. w \in ServerStates /\ w.pc = "verifying" /\ w.manifest = disk[t][Manifest]
        /\ w.asked = server[s].asked /\ w.artifact = server[s].artifact
    BY <2>2, <2>3, <2>4 DEF ServerStates
  <2>6. server[s].asked = FALSE /\ server[s].artifact = Empty
    BY <2>3 DEF DownServer
  <2>7. LoadFollows(w, t)
    <3> HIDE DEF w
    <3> QED BY <1>2, <2>1, <2>2, <2>5, <2>6 DEF LoadFollows
  <2> HIDE DEF w
  <2> QED
    BY <1>2, <2>5, <2>7, OneServes DEF StartServer
<1> QED
  BY <1>1, <1>2 DEF StartServer, Refusals

LEMMA VerifyMembersInv == ASSUME Inv, NEW s \in Servers, VerifyMembers(s) PROVE Inv'
<1> DEFINE t == Configured[s]
           w == [server[s] EXCEPT !.pc = "loading"]
<1>1. server[s].pc = "verifying" /\ LoadFollows(server[s], t) /\ server[s] \in ServerStates
  BY TheServer DEF VerifyMembers
<1>2. CASE Unavailable(s, "artifact_integrity_failed")
  BY <1>1, <1>2, UnavailableInv DEF VerifyMembers, Refusals
<1>3. CASE /\ \A m \in Members : Verified(server[s].manifest, disk[t][m])
           /\ server' = [server EXCEPT ![s].pc = "loading"]
  <2>1. /\ w \in ServerStates /\ server' = [server EXCEPT ![s] = w] /\ w.pc = "loading"
        /\ w.manifest = server[s].manifest /\ w.artifact = Empty /\ w.asked = server[s].asked
    BY <1>1, <1>3 DEF ServerStates, LoadFollows
  <2> HIDE DEF w
  <2>2. LoadFollows(w, t)
    BY <1>1, <1>3, <2>1, FilesOfABundle DEF LoadFollows, Verified
  <2> QED
    BY <2>1, <2>2, OneServes DEF VerifyMembers
<1> QED
  BY <1>2, <1>3 DEF VerifyMembers

LEMMA LoadMemberInv == ASSUME Inv, NEW s \in Servers, LoadMember(s) PROVE Inv'
<1> DEFINE t == Configured[s]
<1>1. server[s].pc = "loading" /\ LoadFollows(server[s], t) /\ server[s] \in ServerStates
  BY TheServer DEF LoadMember
<1>2. PICK i \in DOMAIN Files :
        /\ \A j \in 1..(i - 1) : server[s].artifact[Files[j]] # None
        /\ server' = [server EXCEPT ![s].artifact[Files[i]] = disk[t][Files[i]],
                                    ![s].pc = IF i = Len(Files) THEN "ready" ELSE "loading"]
  BY DEF LoadMember
<1> DEFINE pc == IF i = Len(Files) THEN "ready" ELSE "loading"
           artifact == [server[s].artifact EXCEPT ![Files[i]] = disk[t][Files[i]]]
           w == [server[s] EXCEPT !.artifact = artifact, !.pc = pc]
<1>3. pc \in {"ready", "loading"} /\ server' = [server EXCEPT ![s] = w]
  BY <1>2
<1>4. disk[t][Files[i]] = server[s].manifest /\ server[s].manifest \in Fingerprints
      /\ Files[i] \in Bundle
  BY <1>1, FilesOfABundle DEF LoadFollows
<1>5. server[s].artifact \in Directories
  BY <1>1 DEF ServerStates
<1>6. /\ artifact \in Directories
      /\ \A m \in Members : artifact[m] \in {None, server[s].manifest}
      /\ artifact[Files[i]] = server[s].manifest
      /\ \A m \in Members : m # Files[i] => artifact[m] = server[s].artifact[m]
  BY <1>1, <1>4, <1>5, FilesOfABundle DEF Directories, LoadFollows
<1>7. pc = "ready" => \A m \in Members : artifact[m] = server[s].manifest
  <2> SUFFICES ASSUME i = Len(Files), NEW m \in Members PROVE artifact[m] = server[s].manifest
    OBVIOUS
  <2>1. PICK k \in DOMAIN Files : m = Files[k]
    BY DEF Members
  <2>2. k \in 1..Len(Files) /\ Len(Files) \in Nat
    BY ArtifactAssumption
  <2>3. k = i \/ k \in 1..(i - 1)
    BY <2>2
  <2>4. artifact[m] # None
    <3> HIDE DEF artifact
    <3> QED
      BY <1>2, <1>4, <1>6, <2>1, <2>3, ValuesAssumption
  <2> HIDE DEF artifact
  <2> QED
    BY <1>6, <2>4
<1> HIDE DEF artifact, pc
<1>8. [server[s] EXCEPT !.artifact = artifact] \in ServerStates
  BY <1>1, <1>6 DEF ServerStates
<1>9. /\ w \in ServerStates /\ w.pc = pc /\ w.artifact = artifact
      /\ w.manifest = server[s].manifest /\ w.asked = server[s].asked
  BY <1>1, <1>3, <1>8 DEF ServerStates
<1> HIDE DEF w
<1>10. LoadFollows(w, t)
  BY <1>1, <1>3, <1>6, <1>9 DEF LoadFollows
<1> QED
  BY <1>3, <1>7, <1>9, <1>10, OneServes DEF LoadMember

\* A request that is answered leaves the process as it is.
LEMMA AskInv == ASSUME Inv, NEW s \in Servers, Ask(s) PROVE Inv'
<1> DEFINE answer == IF server[s].pc = "unavailable" THEN Refused(server[s].why) ELSE NoAnswer
           asked == server[s].pc # "unavailable"
           tx == IF asked THEN FirstQuery ELSE server[s].tx
           w == [server[s] EXCEPT !.asked = asked, !.tx = tx, !.answer = answer]
<1>1. /\ server[s].pc \in {"ready", "unavailable"} /\ ~server[s].asked
      /\ LoadFollows(server[s], Configured[s]) /\ server[s] \in ServerStates
  BY TheServer DEF Ask
<1>2. answer \in Answers
  BY <1>1, FilesOfABundle DEF Answers, Refused, NoAnswer, ServerStates, Refusals
<1>3. tx \in Transactions /\ (asked => tx.games = tx.snapshot)
  BY <1>1 DEF ServerStates, Transactions, FirstQuery, Inv, TypeOK
<1>4. server' = [server EXCEPT ![s] = w]
  <2>1. CASE server[s].pc = "unavailable"
    <3>1. [server[s] EXCEPT !.answer = answer] = w
      BY <1>1, <2>1 DEF ServerStates
    <3> QED
      BY <2>1, <3>1 DEF Ask
  <2>2. CASE server[s].pc # "unavailable"
    BY <2>2 DEF Ask
  <2> QED
    BY <2>1, <2>2
<1>5. asked \in BOOLEAN /\ (asked => server[s].pc = "ready")
  BY <1>1
<1> HIDE DEF answer, tx, asked
<1>6. [server[s] EXCEPT !.asked = asked] \in ServerStates
  BY <1>1, <1>5 DEF ServerStates
<1>7. [server[s] EXCEPT !.asked = asked, !.tx = tx] \in ServerStates
  BY <1>3, <1>6 DEF ServerStates
<1>8. /\ w \in ServerStates /\ w.pc = server[s].pc /\ w.artifact = server[s].artifact
      /\ w.manifest = server[s].manifest /\ w.asked = asked /\ w.tx = tx
  BY <1>1, <1>2, <1>7 DEF ServerStates
<1> HIDE DEF w
<1>9. LoadFollows(w, Configured[s])
  BY <1>1, <1>3, <1>5, <1>8 DEF LoadFollows
<1>10. w.pc = "ready" => \A m \in Members : w.artifact[m] = w.manifest
  BY <1>8, TheServer
<1>11. ServerStays
  BY DEF Ask
<1> QED
  BY <1>4, <1>8, <1>9, <1>10, <1>11, OneServes

\* What a process answers to a request it has begun.
LEMMA AnswerFacts ==
    ASSUME Inv, NEW s \in Servers, Answer(s)
    PROVE  \E answer \in Answers :
             /\ server' = [server EXCEPT ![s].asked = FALSE, ![s].tx = NoTransaction,
                                         ![s].answer = answer]
             /\ answer.why = "recommendations" =>
                  \A m \in Members : answer.model[m] = answer.catalog
<1> DEFINE catalog == LaterQueries(server[s].tx)
           good == [why |-> "recommendations", catalog |-> catalog, model |-> server[s].artifact]
<1>1. /\ server[s].pc = "ready" /\ server[s] \in ServerStates
      /\ \A m \in Members : server[s].artifact[m] = server[s].manifest
  BY TheServer DEF Answer, LoadFollows
<1>2. Refused("catalog_stale") \in Answers /\ Refused("catalog_stale").why # "recommendations"
  BY FilesOfABundle DEF Answers, Refused, Refusals
<1>3. catalog \in Fingerprints
  BY <1>1 DEF ServerStates, Transactions, LaterQueries, Fingerprints
<1>4. good \in Answers /\ good.model = server[s].artifact /\ good.catalog = catalog
  BY <1>1, <1>3 DEF Answers, ServerStates, Refusals
<1>5. CASE /\ Current(server[s].manifest, catalog)
           /\ server' = [server EXCEPT ![s].asked = FALSE, ![s].tx = NoTransaction,
                                       ![s].answer = good]
  BY <1>1, <1>4, <1>5 DEF Current
<1>6. CASE server' = [server EXCEPT ![s].asked = FALSE, ![s].tx = NoTransaction,
                                    ![s].answer = Refused("catalog_stale")]
  BY <1>2, <1>6
<1> QED
  BY <1>5, <1>6 DEF Answer

LEMMA AnswerInv == ASSUME Inv, NEW s \in Servers, Answer(s) PROVE Inv'
<1>1. PICK answer \in Answers :
        server' = [server EXCEPT ![s].asked = FALSE, ![s].tx = NoTransaction,
                                 ![s].answer = answer]
  BY AnswerFacts
<1> DEFINE w == [server[s] EXCEPT !.asked = FALSE, !.tx = NoTransaction, !.answer = answer]
<1>2. server[s] \in ServerStates /\ LoadFollows(server[s], Configured[s])
      /\ server[s].pc = "ready"
  BY TheServer DEF Answer, LoadFollows
<1>3. NoTransaction \in Transactions
  BY ArtifactAssumption DEF NoTransaction, Transactions, Versions
<1>4. [server[s] EXCEPT !.asked = FALSE] \in ServerStates
  BY <1>2 DEF ServerStates
<1>5. [server[s] EXCEPT !.asked = FALSE, !.tx = NoTransaction] \in ServerStates
  BY <1>3, <1>4 DEF ServerStates
<1>6. /\ w \in ServerStates /\ w.pc = server[s].pc /\ w.artifact = server[s].artifact
      /\ w.manifest = server[s].manifest /\ w.asked = FALSE
      /\ server' = [server EXCEPT ![s] = w]
  BY <1>1, <1>2, <1>5 DEF ServerStates
<1> HIDE DEF w
<1>7. LoadFollows(w, Configured[s])
  BY <1>2, <1>6 DEF LoadFollows
<1>8. w.pc = "ready" => \A m \in Members : w.artifact[m] = w.manifest
  BY <1>6, TheServer
<1>9. ServerStays
  BY DEF Answer
<1> QED
  BY <1>6, <1>7, <1>8, <1>9, OneServes

LEMMA StopServerInv == ASSUME Inv, NEW s \in Servers, StopServer(s) PROVE Inv'
<1>1. DownServer \in ServerStates
  BY ArtifactAssumption, FilesOfABundle DEF DownServer, NoAnswer, Refused, ServerStates, Answers,
     Refusals, NoTransaction, Transactions, Versions
<1>2. LoadFollows(DownServer, Configured[s]) /\ DownServer.pc # "ready"
  BY DEF LoadFollows, DownServer
<1>3. server \in [Servers -> ServerStates]
  BY DEF Inv, TypeOK
<1>4. TypeOK'
  BY <1>1, <1>3 DEF Inv, TypeOK, StopServer
<1>5. BuildsKnowWhatTheyRead' /\ PublishedIsWhole'
  BY DEF Inv, StopServer, BuildsKnowWhatTheyRead, BuildKnows, PublishedIsWhole
<1>6. LoadsFollowTheManifest'
  BY <1>2, <1>3 DEF Inv, StopServer, LoadsFollowTheManifest, LoadFollows
<1>7. LoadedIsWhatWasBuilt'
  BY <1>2, <1>3 DEF Inv, StopServer, LoadedIsWhatWasBuilt
<1> QED
  BY <1>4, <1>5, <1>6, <1>7 DEF Inv

-----------------------------------------------------------------------------
LEMMA SeedInv == ASSUME Inv, Seed PROVE Inv'
<1>1. TypeOK'
  BY ArtifactAssumption DEF Inv, TypeOK, Seed, Versions
<1>2. BuildsKnowWhatTheyRead' /\ LoadsFollowTheManifest' /\ PublishedIsWhole' /\ LoadedIsWhatWasBuilt'
  BY DEF Inv, Seed, BuildsKnowWhatTheyRead, BuildKnows, LoadsFollowTheManifest, LoadFollows,
         PublishedIsWhole, LoadedIsWhatWasBuilt
<1> QED
  BY <1>1, <1>2 DEF Inv

\* A process that starts has the files of its target to itself.
LEMMA RotInv == ASSUME Inv, NEW t \in Targets, NEW f \in Bundle, Rot(t, f) PROVE Inv'
<1>1. disk \in [Targets -> Directories \cup {Absent}] /\ disk[t] \in Directories
  BY DEF Inv, TypeOK, Rot
<1>2. disk' = [disk EXCEPT ![t] = [disk[t] EXCEPT ![f] = Rotten]]
  BY DEF Rot
<1>3. [disk[t] EXCEPT ![f] = Rotten] \in Directories
  BY <1>1 DEF Directories
<1>4. TypeOK'
  BY <1>1, <1>2, <1>3 DEF Inv, TypeOK, Rot
<1>5. BuildsKnowWhatTheyRead' /\ LoadedIsWhatWasBuilt'
  BY DEF Inv, Rot, BuildsKnowWhatTheyRead, BuildKnows, LoadedIsWhatWasBuilt
<1>6. LoadsFollowTheManifest'
  <2> SUFFICES ASSUME NEW s \in Servers PROVE LoadFollows(server[s], Configured[s])'
    BY DEF LoadsFollowTheManifest
  <2>1. LoadFollows(server[s], Configured[s]) /\ UNCHANGED server
    BY DEF Inv, LoadsFollowTheManifest, Rot
  <2>2. server[s].pc \in {"verifying", "loading"} => disk'[Configured[s]] = disk[Configured[s]]
    BY <1>1, <1>2, <2>1 DEF Rot, LoadFollows
  <2> QED
    BY <2>1, <2>2 DEF LoadFollows
<1>7. PublishedIsWhole'
  <2> SUFFICES ASSUME NEW u \in Targets, disk'[u] # Absent
               PROVE  \E fingerprint \in Fingerprints : \A g \in Bundle :
                         disk'[u][g] \in {fingerprint, Rotten}
    BY DEF PublishedIsWhole
  <2>1. disk[u] # Absent
    BY <1>1, <1>2 DEF Rot
  <2>2. PICK fingerprint \in Fingerprints : \A g \in Bundle : disk[u][g] \in {fingerprint, Rotten}
    BY <2>1 DEF Inv, PublishedIsWhole
  <2>3. \A g \in Bundle : disk'[u][g] \in {disk[u][g], Rotten}
    BY <1>1, <1>2 DEF Directories
  <2> QED
    BY <2>2, <2>3
<1> QED
  BY <1>4, <1>5, <1>6, <1>7 DEF Inv

LEMMA NextInv == Inv /\ [Next]_vars => Inv'
<1> SUFFICES ASSUME Inv, [Next]_vars PROVE Inv'
  OBVIOUS
<1>1. CASE Seed
  BY <1>1, SeedInv
<1>2. ASSUME NEW b \in Builders,
             StartBuild(b) \/ BuildStep(b) \/ FailToWrite(b) \/ CrashBuilder(b)
      PROVE  Inv'
  BY <1>2, StartBuildInv, ReadCatalogInv, CheckTargetInv, WriteFileInv, ValidateBuildInv,
     PromoteInv, FailToWriteInv, CrashBuilderInv DEF BuildStep
<1>3. ASSUME NEW s \in Servers,
             StartServer(s) \/ VerifyMembers(s) \/ LoadMember(s) \/ Ask(s) \/ Answer(s)
             \/ StopServer(s)
      PROVE  Inv'
  BY <1>3, StartServerInv, VerifyMembersInv, LoadMemberInv, AskInv, AnswerInv, StopServerInv
<1>4. ASSUME NEW t \in Targets, NEW f \in Bundle, Rot(t, f) PROVE Inv'
  BY <1>4, RotInv
<1>5. CASE UNCHANGED vars
  BY <1>5 DEF vars, Inv, TypeOK, BuildsKnowWhatTheyRead, BuildKnows, LoadsFollowTheManifest,
              LoadFollows, PublishedIsWhole, LoadedIsWhatWasBuilt
<1> QED
  BY <1>1, <1>2, <1>3, <1>4, <1>5 DEF Next

\* What is on the disk and in the processes is what builds have written: no
\* directory is published unfinished, and no process serves files of two builds.
THEOREM InvHolds == Spec => []Inv
<1> QED
  BY InitInv, NextInv, PTL DEF Spec

-----------------------------------------------------------------------------
\* What a step does to a target: it leaves it, spoils files of it, or puts
\* there what one build has made of one commit.
LEMMA WhatIsPublished ==
    ASSUME Inv, [Next]_vars, NEW t \in Targets
    PROVE  \/ /\ disk[t] # Absent => disk'[t] # Absent
              /\ disk[t] = Absent => disk'[t] = Absent
              /\ disk[t] # Absent => \A f \in Bundle : disk'[t][f] \in {disk[t][f], Rotten}
           \/ /\ disk[t] = Absent /\ disk'[t] # Absent
              /\ \A f \in Bundle : disk'[t][f][1] = disk'[t][f][2]
<1>1. disk \in [Targets -> Directories \cup {Absent}]
  BY DEF Inv, TypeOK
<1>2. CASE UNCHANGED disk
  BY <1>2
<1>3. ASSUME NEW b \in Builders, Promote(b), ~UNCHANGED disk
      PROVE  \/ disk'[t] = disk[t]
             \/ /\ disk[t] = Absent /\ disk'[t] # Absent
                /\ \A f \in Bundle : disk'[t][f][1] = disk'[t][f][2]
  <2>1. /\ builder[b].pc = "validated" /\ disk[builder[b].target] = Absent
        /\ disk' = [disk EXCEPT ![builder[b].target] = temporary[b]]
    BY <1>3 DEF Promote, CanRename
  <2>2. BuildKnows(builder[b], temporary[b])
    BY DEF Inv, BuildsKnowWhatTheyRead
  <2>3. temporary[b] # Absent /\ \A f \in Bundle : temporary[b][f][1] = temporary[b][f][2]
    BY <2>1, <2>2 DEF BuildKnows
  <2> QED
    BY <1>1, <2>1, <2>3
<1>4. ASSUME NEW u \in Targets, NEW g \in Bundle, Rot(u, g)
      PROVE  /\ disk[t] # Absent => disk'[t] # Absent
             /\ disk[t] = Absent => disk'[t] = Absent
             /\ disk[t] # Absent => \A f \in Bundle : disk'[t][f] \in {disk[t][f], Rotten}
  <2>1. disk' = [disk EXCEPT ![u] = [disk[u] EXCEPT ![g] = Rotten]] /\ disk[u] \in Directories
    BY <1>1, <1>4 DEF Rot
  <2>2. [disk[u] EXCEPT ![g] = Rotten] \in Directories
    BY <2>1 DEF Directories
  <2>3. \A f \in Bundle : [disk[u] EXCEPT ![g] = Rotten][f] \in {disk[u][f], Rotten}
    BY <2>1 DEF Directories
  <2> QED
    BY <1>1, <2>1, <2>2, <2>3, ValuesAssumption
<1>5. \/ UNCHANGED disk
      \/ \E b \in Builders : Promote(b)
      \/ \E u \in Targets, g \in Bundle : Rot(u, g)
  BY DEF Next, vars, Seed, StartBuild, BuildStep, ReadCatalog, CheckTarget, WriteFile, Write,
         ValidateBuild, FailToWrite, CrashBuilder, StartServer, VerifyMembers, LoadMember, Ask,
         Answer, StopServer, ServerStays
<1> QED
  BY <1>2, <1>3, <1>4, <1>5

\* A published bundle is immutable: whatever builders race, fail or crash, none
\* of them replaces or removes it, and only rot touches its files.
THEOREM PublishedBundlesStay == Spec => PublishedStays
<1>1. Inv /\ [Next]_vars =>
        [\A t \in Targets : disk[t] # Absent =>
            /\ disk'[t] # Absent
            /\ \A f \in Bundle : disk'[t][f] \in {disk[t][f], Rotten}]_vars
  BY WhatIsPublished
<1> QED
  BY <1>1, InvHolds, PTL DEF Spec, PublishedStays

\* A bundle never holds the games of one seeding with the taxonomies of
\* another, although the seeder commits between the reads of a build.
THEOREM OneCommitInABundle == Spec => []BuiltFromOneCommit
<1>1. Init => BuiltFromOneCommit
  BY DEF Init, BuiltFromOneCommit
<1>2. Inv /\ BuiltFromOneCommit /\ [Next]_vars => BuiltFromOneCommit'
  <2> SUFFICES ASSUME Inv, BuiltFromOneCommit, [Next]_vars,
                      NEW t \in Targets, disk'[t] # Absent, NEW f \in Members
               PROVE  disk'[t][f] = Rotten \/ disk'[t][f][1] = disk'[t][f][2]
    BY DEF BuiltFromOneCommit
  <2>1. CASE disk[t] = Absent
    BY <2>1, WhatIsPublished, FilesOfABundle
  <2>2. CASE disk[t] # Absent
    <3>1. disk'[t][f] \in {disk[t][f], Rotten}
      BY <2>2, WhatIsPublished, FilesOfABundle
    <3> QED
      BY <2>2, <3>1 DEF BuiltFromOneCommit
  <2> QED
    BY <2>1, <2>2
<1> QED
  BY <1>1, <1>2, InvHolds, PTL DEF Spec

-----------------------------------------------------------------------------
\* An answer stays what it was, becomes none, or is one the process has given.
LEMMA AnswersGiven ==
    ASSUME Inv, [Next]_vars, NEW s \in Servers
    PROVE  \/ server'[s].answer = server[s].answer
           \/ server'[s].answer.why # "recommendations"
           \/ \A m \in Members : server'[s].answer.model[m] = server'[s].answer.catalog
<1>1. server \in [Servers -> ServerStates]
  BY DEF Inv, TypeOK
<1>2. CASE UNCHANGED server
  BY <1>2
<1>3. ASSUME NEW u \in Servers, StartServer(u) \/ VerifyMembers(u) \/ LoadMember(u)
      PROVE  server'[s].answer = server[s].answer
  <2>1. CASE \E why \in Refusals : Unavailable(u, why)
    BY <1>1, <2>1 DEF Unavailable, ServerStates
  <2>2. CASE server' = [server EXCEPT ![u].pc = "loading"]
    BY <1>1, <2>2 DEF ServerStates
  <2>3. CASE LoadMember(u)
    BY <1>1, <2>3 DEF LoadMember, ServerStates
  <2>4. CASE StartServer(u)
    <3>1. \/ \E why \in Refusals : Unavailable(u, why)
          \/ server' = [server EXCEPT ![u].pc = "verifying",
                                       ![u].manifest = disk[Configured[u]][Manifest]]
      BY <2>4 DEF StartServer, Refusals
    <3> QED
      BY <1>1, <2>1, <3>1 DEF ServerStates
  <2>5. CASE VerifyMembers(u)
    BY <2>1, <2>2, <2>5 DEF VerifyMembers, Refusals
  <2> QED
    BY <1>3, <2>3, <2>4, <2>5
<1>4. ASSUME NEW u \in Servers, Ask(u)
      PROVE  server'[s].answer = server[s].answer \/ server'[s].answer.why # "recommendations"
  <2>1. CASE server[u].pc = "unavailable"
    <3>1. server' = [server EXCEPT ![u].answer = Refused(server[u].why)]
      BY <1>4, <2>1 DEF Ask
    <3>2. Refused(server[u].why).why # "recommendations"
      BY <1>1 DEF Refused, ServerStates, Refusals
    <3> QED
      BY <1>1, <3>1, <3>2 DEF ServerStates
  <2>2. CASE server[u].pc # "unavailable"
    BY <1>1, <1>4, <2>2 DEF Ask, ServerStates, NoAnswer, Refused
  <2> QED
    BY <2>1, <2>2
<1>5. ASSUME NEW u \in Servers, Answer(u)
      PROVE  \/ server'[s].answer = server[s].answer
             \/ server'[s].answer.why # "recommendations"
             \/ \A m \in Members : server'[s].answer.model[m] = server'[s].answer.catalog
  <2>1. PICK answer \in Answers :
          /\ server' = [server EXCEPT ![u].asked = FALSE, ![u].tx = NoTransaction,
                                      ![u].answer = answer]
          /\ answer.why = "recommendations" =>
               \A m \in Members : answer.model[m] = answer.catalog
    BY <1>5, AnswerFacts
  <2>2. server'[s].answer = IF s = u THEN answer ELSE server[s].answer
    BY <1>1, <2>1 DEF ServerStates
  <2> QED
    BY <2>1, <2>2
<1>6. ASSUME NEW u \in Servers, StopServer(u)
      PROVE  server'[s].answer = server[s].answer \/ server'[s].answer.why # "recommendations"
  BY <1>1, <1>6 DEF StopServer, DownServer, NoAnswer, Refused
<1>7. \/ UNCHANGED server
      \/ \E u \in Servers : \/ StartServer(u) \/ VerifyMembers(u) \/ LoadMember(u)
                            \/ Ask(u) \/ Answer(u) \/ StopServer(u)
  BY DEF Next, vars, Seed, StartBuild, BuildStep, ReadCatalog, CheckTarget, WriteFile, Write,
         ValidateBuild, Promote, FailToWrite, CrashBuilder, BuilderMoves, Rot
<1> QED
  BY <1>2, <1>3, <1>4, <1>5, <1>6, <1>7

\* An answer of the model is made with an artifact of exactly the catalog that
\* the same request has read, however old the artifact of the process is.
THEOREM AnswersFitTheCatalog == Spec => []AnswersMatchTheCatalog
<1>1. Init => AnswersMatchTheCatalog
  BY DEF Init, AnswersMatchTheCatalog, DownServer, NoAnswer, Refused
<1>2. Inv /\ AnswersMatchTheCatalog /\ [Next]_vars => AnswersMatchTheCatalog'
  BY AnswersGiven DEF AnswersMatchTheCatalog
<1> QED
  BY <1>1, <1>2, InvHolds, PTL DEF Spec
=============================================================================
