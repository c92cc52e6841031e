--------------------------- MODULE ModelArtifact ---------------------------
(***************************************************************************)
(* From the catalog to an answer of the model: the build command reads     *)
(* the catalog in one transaction, writes the files of a bundle into a     *)
(* temporary directory next to its target, validates it and renames it     *)
(* into place; an API process loads the bundle at its configured path when *)
(* it starts and compares it with the catalog at every request.  Builders  *)
(* race and crash, files rot on the disk, the seeder changes the catalog.  *)
(*                                                                         *)
(* The catalog is the games and their taxonomies, both written by each     *)
(* seeding: a fingerprint is the pair of versions that were read.  A file  *)
(* is None (missing), the fingerprint it was made from, or Rotten.         *)
(***************************************************************************)
EXTENDS Naturals, Sequences

CONSTANTS Builders, Servers, Targets,
          Files,          \* the members in the order they are written
          Configured,     \* MODEL_ARTIFACT_PATH of each server, or None
          None, Absent, Rotten,
          MaxSeeds, MaxCrashes, MaxRots   \* bounds of the model

Members == {Files[i] : i \in DOMAIN Files}
Manifest == "manifest"

ASSUME ArtifactAssumption ==
    /\ Files \in Seq(STRING) /\ Files # <<>> /\ Manifest \notin Members
    /\ Configured \in [Servers -> Targets \cup {None}]
    /\ {MaxSeeds, MaxCrashes, MaxRots} \subseteq Nat

Versions == 0..MaxSeeds               \* 0 is the catalog before any seeding
Fingerprints == Versions \X Versions
Bundle == Members \cup {Manifest}
Directories == [Bundle -> Fingerprints \cup {None, Rotten}]
Empty == [f \in Bundle |-> None]

ASSUME ValuesAssumption ==
    /\ None \notin Targets \cup Fingerprints
    /\ Rotten \notin Fingerprints /\ Absent \notin Directories

VARIABLES
    committed,    \* the version of the catalog
    disk,         \* the directory at each target
    builder,      \* the build commands
    temporary,    \* the temporary directory of each builder
    server,       \* the API processes
    crashes, rots
vars == <<committed, disk, builder, temporary, server, crashes, rots>>

NoTransaction == [snapshot |-> 0, games |-> 0]
IdleBuilder == [pc |-> "idle", target |-> None, tx |-> NoTransaction, read |-> None]
Refused(why) == [why |-> why, catalog |-> None, model |-> Empty]
NoAnswer == Refused("none")
DownServer == [pc |-> "down", manifest |-> None, artifact |-> Empty, why |-> "none",
               tx |-> NoTransaction, asked |-> FALSE, answer |-> NoAnswer]

\* load_artifact accepts a directory: its files are those the manifest lists.
Whole(d) == /\ d[Manifest] \notin {None, Rotten}
            /\ \A m \in Members : d[m] = d[Manifest]
-----------------------------------------------------------------------------
(* Reading the catalog: the games, then what is attached to them.          *)

\* REPEATABLE READ: the first query fixes what the others see.
FirstQuery == [snapshot |-> committed, games |-> committed]
Mut_ReadCommitted(tx) == <<tx.games, committed>>
LaterQueries(tx) == <<tx.games, tx.snapshot>>

\* The seeder commits a new version of the catalog as a whole.
Seed ==
    /\ committed < MaxSeeds
    /\ committed' = committed + 1
    /\ UNCHANGED <<disk, builder, temporary, server, crashes, rots>>
-----------------------------------------------------------------------------
(* The build command. *)

BuilderMoves(b, pc) ==
    /\ builder' = [builder EXCEPT ![b].pc = pc]
    /\ UNCHANGED <<committed, server, crashes, rots>>

\* "except BaseException": the temporary directory is removed.
CleanUp(b) == temporary' = [temporary EXCEPT ![b] = Absent]

StartBuild(b) ==
    /\ builder[b].pc = "idle"
    /\ \E t \in Targets :
          builder' = [builder EXCEPT ![b] = [pc |-> "reading", target |-> t,
                                             tx |-> FirstQuery, read |-> None]]
    /\ UNCHANGED <<committed, disk, temporary, server, crashes, rots>>

\* The rest of the catalog; an empty one cannot be built from.
ReadCatalog(b) ==
    /\ builder[b].pc = "reading"
    /\ builder' = [builder EXCEPT
         ![b].read = LaterQueries(builder[b].tx),
         ![b].pc = IF builder[b].tx.games = 0 THEN "failed" ELSE "checking"]
    /\ UNCHANGED <<committed, disk, temporary, server, crashes, rots>>

\* An existing target is refused before any work.
CheckTarget(b) ==
    /\ builder[b].pc = "checking"
    /\ UNCHANGED disk
    /\ \/ /\ disk[builder[b].target] # Absent
          /\ BuilderMoves(b, "failed") /\ UNCHANGED temporary
       \/ /\ disk[builder[b].target] = Absent
          /\ temporary' = [temporary EXCEPT ![b] = Empty]
          /\ BuilderMoves(b, "writing")

Mut_InPlace(b, f, content) ==
    LET t == builder[b].target
        d == IF disk[t] = Absent THEN Empty ELSE disk[t]
    IN  /\ disk' = [disk EXCEPT ![t] = [d EXCEPT ![f] = content]]
        /\ temporary' = [temporary EXCEPT ![b][f] = content]

\* Where a file of the bundle goes.
Write(b, f, content) ==
    /\ temporary' = [temporary EXCEPT ![b][f] = content]
    /\ UNCHANGED disk

\* The members in their order, the manifest with their checksums last.
WriteFile(b) ==
    /\ builder[b].pc = "writing"
    /\ temporary[b][Manifest] = None
    /\ \/ \E i \in DOMAIN Files :
            /\ temporary[b][Files[i]] = None
            /\ \A j \in 1..(i - 1) : temporary[b][Files[j]] # None
            /\ Write(b, Files[i], builder[b].read)
       \/ /\ \A m \in Members : temporary[b][m] # None
          /\ Write(b, Manifest, builder[b].read)
    /\ BuilderMoves(b, "writing")

\* The disk is full, or the command is interrupted.
FailToWrite(b) ==
    /\ builder[b].pc \in {"writing", "validated"}
    /\ CleanUp(b)
    /\ UNCHANGED disk
    /\ BuilderMoves(b, "failed")

ValidateBuild(b) ==
    /\ builder[b].pc = "writing" /\ temporary[b][Manifest] # None
    /\ UNCHANGED disk
    /\ IF Whole(temporary[b])
         THEN BuilderMoves(b, "validated") /\ UNCHANGED temporary
         ELSE BuilderMoves(b, "failed") /\ CleanUp(b)

Mut_Overwrites(b) == TRUE

\* rename(2) replaces no directory that has something in it.
CanRename(b) == disk[builder[b].target] = Absent

Promote(b) ==
    /\ builder[b].pc = "validated"
    /\ IF CanRename(b)
         THEN /\ disk' = [disk EXCEPT ![builder[b].target] = temporary[b]]
              /\ temporary' = [temporary EXCEPT ![b] = Absent]
              /\ BuilderMoves(b, "done")
         ELSE /\ UNCHANGED disk
              /\ CleanUp(b)
              /\ BuilderMoves(b, "failed")

BuildStep(b) == ReadCatalog(b) \/ CheckTarget(b) \/ WriteFile(b)
                \/ ValidateBuild(b) \/ Promote(b)

Ended == {"idle", "done", "failed", "crashed"}

CrashBuilder(b) ==
    /\ builder[b].pc \notin Ended /\ crashes < MaxCrashes
    /\ crashes' = crashes + 1
    /\ builder' = [builder EXCEPT ![b].pc = "crashed"]
    /\ UNCHANGED <<committed, disk, temporary, server, rots>>
-----------------------------------------------------------------------------
(* The API process. *)

ServerStays == UNCHANGED <<committed, disk, builder, temporary, crashes, rots>>

Unavailable(s, why) ==
    server' = [server EXCEPT ![s].pc = "unavailable", ![s].why = why,
                             ![s].artifact = Empty, ![s].manifest = None]

\* create_recommendation_service, and the first reads of load_artifact.
StartServer(s) ==
    /\ server[s].pc = "down"
    /\ ServerStays
    /\ LET t == Configured[s]
       IN  IF t = None THEN Unavailable(s, "model_not_configured")
           ELSE IF disk[t] = Absent THEN Unavailable(s, "artifact_missing")
           ELSE IF disk[t][Manifest] = None THEN Unavailable(s, "artifact_missing")
           ELSE IF disk[t][Manifest] = Rotten THEN Unavailable(s, "manifest_invalid")
           ELSE server' = [server EXCEPT ![s].pc = "verifying",
                                         ![s].manifest = disk[t][Manifest]]

\* The size and the checksum that the manifest has for a member.
Verified(manifest, content) == content = manifest

VerifyMembers(s) ==
    /\ server[s].pc = "verifying"
    /\ ServerStays
    /\ LET d == disk[Configured[s]]
       IN  IF \E m \in Members : ~Verified(server[s].manifest, d[m])
             THEN Unavailable(s, "artifact_integrity_failed")
             ELSE server' = [server EXCEPT ![s].pc = "loading"]

\* Every member is opened a second time and its content kept.
LoadMember(s) ==
    /\ server[s].pc = "loading"
    /\ ServerStays
    /\ \E i \in DOMAIN Files :
          /\ server[s].artifact[Files[i]] = None
          /\ \A j \in 1..(i - 1) : server[s].artifact[Files[j]] # None
          /\ server' = [server EXCEPT
               ![s].artifact[Files[i]] = disk[Configured[s]][Files[i]],
               ![s].pc = IF i = Len(Files) THEN "ready" ELSE "loading"]

\* POST /recommendations: nothing is read for a model that did not load.
Ask(s) ==
    /\ server[s].pc \in {"ready", "unavailable"} /\ ~server[s].asked
    /\ ServerStays
    /\ IF server[s].pc = "unavailable"
         THEN server' = [server EXCEPT ![s].answer = Refused(server[s].why)]
         ELSE server' = [server EXCEPT ![s].asked = TRUE, ![s].tx = FirstQuery,
                                       ![s].answer = NoAnswer]

Mut_AnyCatalog(artifact, catalog) == TRUE

\* The fingerprint of the artifact is the one of the catalog.
Current(artifact, catalog) == artifact = catalog

Answer(s) ==
    /\ server[s].asked
    /\ ServerStays
    /\ LET catalog == LaterQueries(server[s].tx)
           fits == /\ server[s].tx.games # 0
                   /\ Current(server[s].manifest, catalog)
       IN  server' = [server EXCEPT
             ![s].asked = FALSE, ![s].tx = NoTransaction,
             ![s].answer = IF fits
                           THEN [why |-> "recommendations", catalog |-> catalog,
                                 model |-> server[s].artifact]
                           ELSE Refused("catalog_stale")]

StopServer(s) ==
    /\ server[s].pc # "down" /\ crashes < MaxCrashes
    /\ crashes' = crashes + 1
    /\ server' = [server EXCEPT ![s] = DownServer]
    /\ UNCHANGED <<committed, disk, builder, temporary, rots>>

\* A file of a published bundle rots, though not between the two times that
\* a process which starts reads it.
Rot(t, f) ==
    /\ rots < MaxRots
    /\ disk[t] # Absent
    /\ \A s \in Servers : Configured[s] = t =>
          server[s].pc \notin {"verifying", "loading"}
    /\ disk' = [disk EXCEPT ![t][f] = Rotten]
    /\ rots' = rots + 1
    /\ UNCHANGED <<committed, builder, temporary, server, crashes>>
-----------------------------------------------------------------------------
Init ==
    /\ committed = 0
    /\ disk = [t \in Targets |-> Absent]
    /\ builder = [b \in Builders |-> IdleBuilder]
    /\ temporary = [b \in Builders |-> Absent]
    /\ server = [s \in Servers |-> DownServer]
    /\ crashes = 0 /\ rots = 0

Next ==
    \/ Seed
    \/ \E b \in Builders : StartBuild(b) \/ BuildStep(b) \/ FailToWrite(b) \/ CrashBuilder(b)
    \/ \E s \in Servers : StartServer(s) \/ VerifyMembers(s) \/ LoadMember(s)
                          \/ Ask(s) \/ Answer(s) \/ StopServer(s)
    \/ \E t \in Targets, f \in Bundle : Rot(t, f)

Spec == Init /\ [][Next]_vars
-----------------------------------------------------------------------------
Transactions == [snapshot : Versions, games : Versions]
BuilderStates ==
    [pc : Ended \cup {"reading", "checking", "writing", "validated"},
     target : Targets \cup {None}, tx : Transactions, read : Fingerprints \cup {None}]
Refusals == {"none", "model_not_configured", "artifact_missing", "manifest_invalid",
             "artifact_integrity_failed", "catalog_stale"}
Answers == [why : Refusals \cup {"recommendations"}, catalog : Fingerprints \cup {None}, model : Directories]
ServerStates ==
    [pc : {"down", "verifying", "loading", "ready", "unavailable"},
     manifest : Fingerprints \cup {None}, artifact : Directories, why : Refusals,
     tx : Transactions, asked : BOOLEAN, answer : Answers]

TypeOK ==
    /\ committed \in Versions
    /\ disk \in [Targets -> Directories \cup {Absent}]
    /\ temporary \in [Builders -> Directories \cup {Absent}]
    /\ builder \in [Builders -> BuilderStates]
    /\ server \in [Servers -> ServerStates]

\* A temporary directory exists exactly while it is written and validated, or for good
\* after a crash - a build that fails leaves nothing behind - and holds nothing but what
\* the build made of the one commit it has read.
BuildKnows(w, directory) ==
    /\ w.pc # "idle" => w.target \in Targets
    /\ w.pc = "reading" => w.tx.games = w.tx.snapshot
    /\ w.pc \in {"checking", "writing", "validated"} =>
         w.read \in Fingerprints /\ w.read[1] = w.read[2]
    /\ w.pc \in {"writing", "validated"} => directory # Absent
    /\ directory # Absent => w.pc \in {"writing", "validated", "crashed"}
    /\ w.pc = "writing" => \A f \in Bundle : directory[f] \in {None, w.read}
    /\ w.pc = "validated" => \A f \in Bundle : directory[f] = w.read
BuildsKnowWhatTheyRead == \A b \in Builders : BuildKnows(builder[b], temporary[b])

\* A process that loads reads the files it has compared with its manifest; what it has
\* loaded, in the order of the files, is what the manifest says.
LoadFollows(w, t) ==
    /\ w.pc = "down" => w = DownServer
    /\ w.asked => w.pc = "ready" /\ w.tx.games = w.tx.snapshot
    /\ w.pc \in {"verifying", "loading"} => t \in Targets /\ disk[t] # Absent
    /\ w.pc \in {"verifying", "loading", "ready"} => w.manifest \in Fingerprints
    /\ w.pc = "verifying" => w.artifact = Empty
    /\ w.pc = "loading" => \A m \in Members : /\ disk[t][m] = w.manifest
                                              /\ w.artifact[m] \in {None, w.manifest}
LoadsFollowTheManifest == \A s \in Servers : LoadFollows(server[s], Configured[s])

\* What stands at a target is a whole bundle, up to what has rotted since, in
\* every state that builders, their failures and their crashes can reach:
\* the API never finds a directory that is still being written.
PublishedIsWhole ==
    \A t \in Targets : disk[t] # Absent =>
       \E fingerprint \in Fingerprints : \A f \in Bundle :
          disk[t][f] \in {fingerprint, Rotten}

\* A bundle holds one committed version of the catalog, never the games of
\* one seeding with the taxonomies of another.
BuiltFromOneCommit ==
    \A t \in Targets : disk[t] # Absent =>
       \A f \in Members : disk[t][f] = Rotten \/ disk[t][f][1] = disk[t][f][2]

\* What a running process has loaded is what some build wrote: the same
\* fingerprint in every member, whatever happened to the files before.
LoadedIsWhatWasBuilt ==
    \A s \in Servers : server[s].pc = "ready" =>
       \A m \in Members : server[s].artifact[m] = server[s].manifest

\* What is on the disk and in the processes is what builds have written.
Inv == /\ TypeOK /\ BuildsKnowWhatTheyRead /\ LoadsFollowTheManifest
       /\ PublishedIsWhole /\ LoadedIsWhatWasBuilt

\* An answer of the model is made with an artifact of exactly the catalog
\* that the same request resolved its games in.
AnswersMatchTheCatalog ==
    \A s \in Servers : server[s].answer.why = "recommendations" =>
       \A m \in Members : server[s].answer.model[m] = server[s].answer.catalog

\* A published bundle is immutable: no builder replaces or removes it, however
\* many build for the same target at once; only rot touches its files.
PublishedStays ==
    [][\A t \in Targets : disk[t] # Absent =>
          /\ disk'[t] # Absent
          /\ \A f \in Bundle :
                disk'[t][f] \in {disk[t][f], Rotten}]_vars
=============================================================================
