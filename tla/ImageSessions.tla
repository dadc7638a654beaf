---------------------------- MODULE ImageSessions ----------------------------
(***************************************************************************)
(* The life of an ORAM image directory: oramctl builds it and sessions       *)
(* reopen it, run accesses, flush and save (src/src/bin/oramctl.rs), through *)
(* the controller's checkpoint (from_state, snapshot, src/src/circuit.rs)    *)
(* and the state files (src/src/state.rs).  A directory holds the metadata   *)
(* and the payload image, the controller state, the auth.state sidecar and,  *)
(* for direct tables, the description of the table.                          *)
(*                                                                         *)
(* Pages are abstracted to versions: every batch of accesses, whose pages    *)
(* and controller belong together, makes a new one.  An image of pages of    *)
(* several versions, or of damaged pages, is Mixed.  Roots are the versions  *)
(* whose pages they verify: a verified read of a Mixed image may still       *)
(* succeed, on a path whose pages are all those of the root (EmbeddedTree).  *)
(***************************************************************************)
EXTENDS Integers, FiniteSets

CONSTANT
  Deployments    \* the ways the command line tool is used

Layout == {"plain", "sidecar", "embedded"}

ASSUME DeploymentsAssumption ==
  Deployments \subseteq
    [direct     : BOOLEAN,         \* the directory holds direct tables
     layouts    : SUBSET Layout,   \* what a build may choose
     sealed     : BOOLEAN,         \* --state-key-hex: the state files are encrypted
     cached     : BOOLEAN,         \* --cache-levels: a write-back cache above the images
     legacy     : BOOLEAN,         \* the build is one whose snapshots bind no roots
     forgets    : BOOLEAN,         \* sessions may leave out --auth-store
     power      : BOOLEAN,         \* the machine may lose power
     maxVersion : Nat,             \* bound: versions of the pages
     maxBuilds  : Nat]             \* bound: builds into the same directory

VARIABLES
  deployment, \* how the tool is used, the same for all of a behaviour
  version,    \* the last version made
  builds,     \* builds started
  image,      \* per store: [paging, version, kept], `kept` survives a power loss
  stateFile,  \* [seen, kept]: what a load reads, and what survives a power loss
  authFile,   \* the same for the auth.state sidecar
  tableFile,  \* the same for the description of a direct table
  session,    \* the running command, or Idle
  clean       \* whether every command so far returned Ok and saved what it changed:
              \* the --auth-store of the last one, or "no"

vars == <<deployment, version, builds, image, stateFile, authFile, tableFile, session, clean>>

files == <<stateFile, authFile, tableFile>>

Store == {"meta", "payload"}
Mixed == -1

\* Contents of a state file: a snapshot, roots, or neither.
Absent == [kind |-> "absent"]
Torn   == [kind |-> "torn"]
Table(build) == [kind |-> "table", build |-> build]
State(build, v, roots) ==
  [kind |-> "state", build |-> build, version |-> v, auth |-> roots]

\* The roots of both stores over pages of one version.
Roots(layout, v) == [kind |-> "roots", layout |-> layout, version |-> v]

\* The auth of a snapshot that binds no roots.
NoRoots == Roots("plain", Mixed)

\* auth_plaintext_page_bytes, active_auth_layout: only embedded pages carry a
\* trailer.
PageBytes(layout) == IF layout = "embedded" THEN 2 ELSE 1

Pages(paging, v, kept) == [paging |-> paging, version |-> v, kept |-> kept]

\* No command is running.
Idle ==
  [pc |-> "idle", command |-> "none", auth |-> FALSE, save |-> FALSE, build |-> 0, ctl |-> 0,
   table |-> 0, roots |-> NoRoots, served |-> FALSE, was |-> "no",
   view |-> [s \in Store |-> Mixed]]

\* The running command reaches another point.
At(pc) == [session EXCEPT !.pc = pc]

Init ==
  /\ deployment \in Deployments
  /\ version = 0
  /\ builds = 0
  /\ image = [s \in Store |-> Pages(1, Mixed, Mixed)]
  /\ stateFile = [seen |-> Absent, kept |-> Absent]
  /\ authFile = [seen |-> Absent, kept |-> Absent]
  /\ tableFile = [seen |-> Absent, kept |-> Absent]
  /\ session = Idle
  /\ clean = "no"

Readable(content) == content.kind \notin {"absent", "torn"}

-----------------------------------------------------------------------------
(* Saving and loading the state files.                                      *)

\* save_atomic, save_encrypted_atomic: a temporary file is written and renamed
\* over the old one, synced by neither.
save_atomic(file, content) == [seen |-> content, kept |-> file.kept]

\* from_bytes: a plain snapshot cut within the roots at its end is read as one
\* of the older format, which binds none; any other cut is an error, and so is
\* every cut of a sealed file.
Truncated(content) ==
  IF Readable(content) /\ ~deployment.sealed THEN {Torn, State(content.build, content.version, NoRoots)}
  ELSE {Torn}

\* store_auth_state: the roots of pages of version v.
RootsOf(layout, v) == IF layout = "plain" THEN NoRoots ELSE Roots(layout, v)

\* Mutant: the snapshot binds the roots of the state the session was opened with.
snapshot_OldRoots == State(session.build, session.ctl, stateFile.seen.auth)

\* snapshot: the controller with the roots of its stores, if they have any.
snapshot == State(session.build, session.ctl, session.roots)

-----------------------------------------------------------------------------
(* Building an image (build_circuit_table, build_direct_table).             *)

\* FilePageStore::open: the file takes the length of the pages asked for; what
\* lies beyond is lost.
Resized(img, len) == IF len < img.paging THEN Pages(img.paging, Mixed, Mixed) ELSE img

AfterTable(layout) == IF layout = "plain" THEN "build_state" ELSE "build_auth"

BuildSession(layout) ==
  [pc |-> IF deployment.direct THEN "build_table" ELSE AfterTable(layout), command |-> "build",
   auth |-> FALSE, save |-> TRUE, build |-> builds + 1, ctl |-> version + 1, table |-> builds + 1,
   roots |-> RootsOf(layout, version + 1), served |-> FALSE, was |-> "no",
   view |-> [s \in Store |-> version + 1]]

\* Pages are planned, written and flushed, the metadata before the payload; a
\* build that stops among its writes leaves them unusable.
build_pages(layout) ==
  /\ session = Idle
  /\ builds < deployment.maxBuilds
  /\ version < deployment.maxVersion
  /\ builds' = builds + 1
  /\ version' = version + 1
  /\ clean' = "no"
  /\ \E written \in {{}, {"meta"}, Store} :
       /\ image' = [s \in Store |->
            LET v == IF s \in written THEN version + 1 ELSE Mixed
            IN Pages(PageBytes(layout), v, v)]
       /\ session' = IF written = Store THEN BuildSession(layout) ELSE Idle
  /\ UNCHANGED <<deployment, files>>

\* The stores are opened before the source of the table: a build that ends
\* before its first page has changed no more than the length of the images.
build_refused(layout) ==
  /\ session = Idle
  /\ image' = [s \in Store |-> Resized(image[s], PageBytes(layout))]
  /\ clean' = "no"
  /\ UNCHANGED <<deployment, version, builds, files, session>>

\* Mutant: a description that is there already is kept.
build_table_Kept ==
  /\ session.pc = "build_table"
  /\ tableFile' = IF tableFile.seen = Absent THEN save_atomic(tableFile, Table(session.build))
                  ELSE tableFile
  /\ session' = At(AfterTable(session.roots.layout))
  /\ UNCHANGED <<deployment, version, builds, image, stateFile, authFile, clean>>

\* A direct table is described next to its image, in a file written in place.
build_table ==
  /\ session.pc = "build_table"
  /\ \/ /\ tableFile' = save_atomic(tableFile, Table(session.build))
        /\ session' = At(AfterTable(session.roots.layout))
     \/ /\ tableFile' = save_atomic(tableFile, Torn)
        /\ session' = Idle
  /\ UNCHANGED <<deployment, version, builds, image, stateFile, authFile, clean>>

\* build_circuit_store_auth, build_direct_store_auth: the hashes are built over
\* the finished pages and the sidecar is saved.
build_auth ==
  /\ session.pc = "build_auth"
  /\ authFile' = save_atomic(authFile, session.roots)
  /\ session' = At("build_state")
  /\ UNCHANGED <<deployment, version, builds, image, stateFile, tableFile, clean>>

\* The controller state is saved last and completes the build.
build_state ==
  /\ session.pc = "build_state"
  /\ stateFile' = save_atomic(stateFile,
       State(session.build, session.ctl, IF deployment.legacy THEN NoRoots ELSE session.roots))
  /\ clean' = IF session.roots = NoRoots THEN "plain" ELSE "auth"
  /\ session' = Idle
  /\ UNCHANGED <<deployment, version, builds, image, authFile, tableFile>>

-----------------------------------------------------------------------------
(* Reopening it (load_circuit_state, open_circuit_file_stores_for_reopen,    *)
(* from_state).                                                             *)

\* With --auth-store: the roots bound to the controller state, else the sidecar.
ChosenRoots(state) == IF state.auth # NoRoots THEN state.auth ELSE authFile.seen

\* validate_bound_auth_state
validate_bound_auth_state(bound, roots) == bound = NoRoots \/ bound = roots

\* load_circuit_state, load_circuit_store_auth: a file that is missing or does
\* not parse ends the command before it touches the images.
LoadFails(auth) ==
  IF Readable(stateFile.seen)
  THEN auth /\ stateFile.seen.auth = NoRoots /\ ~Readable(authFile.seen)
  ELSE TRUE

load_fails(auth) ==
  /\ session = Idle
  /\ LoadFails(auth) \/ (deployment.direct /\ ~Readable(tableFile.seen))
  /\ UNCHANGED vars

\* The stores are opened before the controller state is checked against them.
Opened(command, auth, save, table) ==
  /\ session = Idle
  /\ ~LoadFails(auth)
  /\ auth \/ deployment.forgets \/ stateFile.seen.auth = NoRoots
  /\ LET roots == IF auth THEN ChosenRoots(stateFile.seen) ELSE NoRoots
     IN /\ image' = [s \in Store |-> Resized(image[s], PageBytes(roots.layout))]
        /\ session' =
             IF validate_bound_auth_state(stateFile.seen.auth, roots)
             THEN [pc |-> "running", command |-> command, auth |-> auth, save |-> save,
                   build |-> stateFile.seen.build, ctl |-> stateFile.seen.version,
                   table |-> table, roots |-> roots, served |-> FALSE, was |-> clean,
                   view |-> [s \in Store |-> image'[s].version]]
             ELSE Idle
  /\ UNCHANGED <<deployment, version, builds, files, clean>>

\* bench-circuit and verify-circuit-bins.
reopen(command, auth, save) ==
  /\ ~deployment.direct
  /\ command # "bench-direct"
  /\ Opened(command, auth, save, stateFile.seen.build)

\* bench-direct reads the description of the table first.
reopen_direct(auth, save) ==
  /\ deployment.direct
  /\ Readable(tableFile.seen)
  /\ Opened("bench-direct", auth, save, tableFile.seen.build)

-----------------------------------------------------------------------------
(* Running accesses and drains.                                             *)

\* The pages a store hands out pass the check of its roots, if it has any.
Verified(s) ==
  session.roots # NoRoots =>
    /\ image[s].paging = PageBytes(session.roots.layout)
    /\ session.view[s] \in {session.roots.version, Mixed}

\* Pages of the controller's version stay together with it; other pages become
\* part of no version.
Written(s, v) == IF session.view[s] = session.ctl THEN v ELSE Mixed

Stop == session' = Idle /\ UNCHANGED <<deployment, version, builds, files>>

\* The command after a batch: roots follow the pages that are written.
Served ==
  [pc |-> "running", command |-> session.command, auth |-> session.auth, save |-> session.save,
   build |-> session.build, ctl |-> version + 1, table |-> session.table,
   roots |-> RootsOf(session.roots.layout, version + 1), served |-> TRUE, was |-> session.was,
   view |-> [s \in Store |-> Written(s, version + 1)]]

\* A batch of reads and the drain after it.  The write-back cache keeps some or
\* all of the pages from the file until the flush.
run_batch ==
  /\ session.pc = "running"
  /\ version < deployment.maxVersion
  /\ \A s \in Store : Verified(s)
  /\ version' = version + 1
  /\ clean' = "no"
  /\ session' = Served
  /\ \E torn \in SUBSET Store :
       image' = [s \in Store |->
         Pages(image[s].paging,
               IF ~deployment.cached THEN Written(s, version + 1)
               ELSE IF s \in torn THEN Mixed ELSE image[s].version,
               image[s].kept)]
  /\ UNCHANGED <<deployment, builds, files>>

\* Some pages of an image are written.
Spoilt(img) == Pages(img.paging, Mixed, img.kept)

\* The pages of a batch are written before its answers are compared with the
\* source: a command that meets a wrong answer has changed the image.
WrongAnswer ==
  /\ session.pc = "running"
  /\ \A s \in Store : Verified(s)
  /\ session.table # session.build \/ \E s \in Store : session.view[s] # session.ctl
  /\ image' = [s \in Store |-> Spoilt(image[s])]
  /\ clean' = "no"
  /\ Stop

\* verify-circuit-bins, and bench-circuit when it is given the source tables.
bin_mismatch ==
  /\ session.pc = "running"
  /\ session.command # "bench-direct"
  /\ WrongAnswer

direct_mismatch ==
  /\ session.pc = "running"
  /\ session.command = "bench-direct"
  /\ WrongAnswer

\* A batch whose read is refused by a store, or whose page writes stop half
\* way: metadata pages are written before payload pages.  The command ends
\* with the error.
batch_fails ==
  /\ session.pc = "running"
  /\ \/ /\ \E s \in Store : ~Verified(s) \/ session.view[s] = Mixed
        /\ UNCHANGED <<image, clean>>
     \/ \E torn \in {{"meta"}, Store} :
          /\ image' = [s \in Store |-> IF s \in torn THEN Spoilt(image[s]) ELSE image[s]]
          /\ clean' = "no"
  /\ Stop

-----------------------------------------------------------------------------
(* Leaving it.                                                              *)

\* Mutant: the sidecar is saved before the state.
After_AuthFirst(pc) ==
  CASE pc = "running" -> "flush_meta" [] pc = "flush_meta" -> "flush_payload"
    [] pc = "flush_payload" -> IF ~session.save THEN "done"
                               ELSE IF session.auth THEN "save_auth" ELSE "save_state"
    [] pc = "save_auth" -> "save_state" [] pc = "save_state" -> "done"

\* bench_circuit_table, verify_circuit_bin_table, finish_direct_bench_table:
\* flush, then unless --no-save the state and, with --auth-store, the sidecar.
After(pc) ==
  CASE pc = "running" -> "flush_meta"
    [] pc = "flush_meta" -> "flush_payload"
    [] pc = "flush_payload" -> IF session.save THEN "save_state" ELSE "done"
    [] pc = "save_state" -> IF session.auth THEN "save_auth" ELSE "done"
    [] pc = "save_auth" -> "done"

Flags == IF session.auth THEN "auth" ELSE "plain"

\* A session that saves without a batch may bind roots it never verified.
Advance(pc) ==
  IF After(pc) # "done"
  THEN /\ session' = At(After(pc))
       /\ clean' = IF pc = "save_state" THEN "no" ELSE clean
  ELSE /\ session' = Idle
       /\ clean' = IF session.save
                   THEN IF session.was = Flags \/ (session.was # "no" /\ session.served)
                        THEN Flags ELSE "no"
                   ELSE IF session.served THEN "no" ELSE clean

finish_ops ==
  /\ session.pc = "running"
  /\ Advance("running")
  /\ UNCHANGED <<deployment, version, builds, image, files>>

FlushedStore == IF session.pc = "flush_meta" THEN "meta" ELSE "payload"

\* CircuitOram::flush: the metadata store, then the payload store.
flush ==
  /\ session.pc \in {"flush_meta", "flush_payload"}
  /\ image' = [s \in Store |->
       IF s = FlushedStore THEN Pages(image[s].paging, session.view[s], session.view[s])
       ELSE image[s]]
  /\ Advance(session.pc)
  /\ UNCHANGED <<deployment, version, builds, files>>

\* Dirty pages are written before the sync: a flush that fails leaves some of
\* them.
flush_fails ==
  /\ session.pc \in {"flush_meta", "flush_payload"}
  /\ image[FlushedStore].kept # session.view[FlushedStore]
  /\ image' = [s \in Store |-> IF s = FlushedStore THEN Spoilt(image[s]) ELSE image[s]]
  /\ UNCHANGED clean
  /\ Stop

save_state ==
  /\ session.pc = "save_state"
  /\ stateFile' = save_atomic(stateFile, snapshot)
  /\ Advance("save_state")
  /\ UNCHANGED <<deployment, version, builds, image, authFile, tableFile>>

save_auth ==
  /\ session.pc = "save_auth"
  /\ authFile' = save_atomic(authFile, session.roots)
  /\ Advance("save_auth")
  /\ UNCHANGED <<deployment, version, builds, image, stateFile, tableFile>>

-----------------------------------------------------------------------------
(* Failures.  A save that fails ends the command like a stop before it.     *)

stop ==
  /\ session # Idle
  /\ UNCHANGED <<image, clean>>
  /\ Stop

written_back(file) == [seen |-> file.seen, kept |-> file.seen]

writeback ==
  /\ deployment.power
  /\ \/ /\ \E s \in Store :
            image' = [t \in Store |-> IF t # s THEN image[t]
                                      ELSE Pages(image[t].paging, image[t].version, image[t].version)]
        /\ UNCHANGED files
     \/ /\ stateFile' = written_back(stateFile)
        /\ UNCHANGED <<image, authFile, tableFile>>
     \/ /\ authFile' = written_back(authFile)
        /\ UNCHANGED <<image, stateFile, tableFile>>
     \/ /\ tableFile' = written_back(tableFile)
        /\ UNCHANGED <<image, stateFile, authFile>>
  /\ UNCHANGED <<deployment, version, builds, session, clean>>

Survives(file, truncated) ==
  IF file.seen = file.kept THEN {file.seen}
  ELSE {file.seen, file.kept} \cup truncated

SurvivingPages(img) ==
  {Pages(img.paging, v, v) : v \in IF img.version = img.kept THEN {img.kept}
                                    ELSE {img.kept, img.version, Mixed}}

\* Pages written since the last flush survive or not, one by one; so do the
\* state files, which are renamed without a sync.
power_loss ==
  /\ deployment.power
  /\ \E meta \in SurvivingPages(image["meta"]), payload \in SurvivingPages(image["payload"]) :
       image' = [s \in Store |-> IF s = "meta" THEN meta ELSE payload]
  /\ \E c \in Survives(stateFile, Truncated(stateFile.seen)) :
       stateFile' = [seen |-> c, kept |-> c]
  /\ \E c \in Survives(authFile, {Torn}) :
       authFile' = [seen |-> c, kept |-> c]
  /\ \E c \in Survives(tableFile, {Torn}) :
       tableFile' = [seen |-> c, kept |-> c]
  /\ session' = Idle
  /\ clean' = "no"
  /\ UNCHANGED <<deployment, version, builds>>

Commands == {"bench-circuit", "verify-circuit-bins", "bench-direct"}

Next ==
  \/ \E layout \in deployment.layouts : build_pages(layout)
  \/ \E layout \in deployment.layouts : build_refused(layout)
  \/ build_table
  \/ build_auth
  \/ build_state
  \/ \E auth \in BOOLEAN : load_fails(auth)
  \/ \E command \in Commands, auth, save \in BOOLEAN : reopen(command, auth, save)
  \/ \E auth, save \in BOOLEAN : reopen_direct(auth, save)
  \/ run_batch
  \/ bin_mismatch
  \/ direct_mismatch
  \/ batch_fails
  \/ finish_ops
  \/ flush
  \/ flush_fails
  \/ save_state
  \/ save_auth
  \/ stop
  \/ writeback
  \/ power_loss

Spec == Init /\ [][Next]_vars

-----------------------------------------------------------------------------
(* Properties.                                                              *)

\* The roots the session was given verify both images.
RootsVerify ==
  session.auth /\ \A s \in Store : Verified(s) /\ session.view[s] # Mixed

\* The state files of the directory always bind roots.
RootsAreBound ==
  /\ ~deployment.legacy
  /\ "plain" \notin deployment.layouts
  /\ deployment.power => deployment.sealed

BuiltOnce == builds <= 1 /\ ~deployment.power

\* An authenticated session answers from pages of its own controller: whatever
\* stopped, failed or was not saved before, and whatever a loss of power left,
\* images that pass the check of the roots a session was given are of the
\* version of its controller state (from_state,
\* open_circuit_file_stores_for_reopen).  Where a state may bind no roots, so that
\* the sidecar is used, this takes a single build and no loss of power.
ReadsMatchState ==
  RootsAreBound \/ BuiltOnce =>
    (session.pc = "running" /\ RootsVerify => \A s \in Store : session.view[s] = session.ctl)

\* Unless power is lost, a direct image that passes the check is read with the
\* description of the table it was built from, also after a build over an
\* older image stopped half way (bench_direct_table).
ReadsMatchTable ==
  ~deployment.power /\ (RootsAreBound \/ BuiltOnce) =>
    (session.pc = "running" /\ RootsVerify => session.table = session.build)

\* A command whose flags differ from those of the build does not cut off pages.
FlagsKeepPages ==
  "embedded" \in deployment.layouts => ~deployment.forgets /\ ~deployment.legacy

\* Unless power is lost, a directory that was built and whose sessions all
\* returned Ok and saved can be reopened with the flags of the last one, and has
\* state, roots and both images of one version, whatever flags the others had
\* and however often an open was refused or a command was stopped before its
\* first batch.  Left out are directories in which a session saved without a
\* batch and under other flags than the one before it: such a session may bind
\* roots that it never compared with the pages.
SavedImagesReopen ==
  ~deployment.power /\ FlagsKeepPages /\ session = Idle /\ clean # "no" =>
    /\ Readable(stateFile.seen)
    /\ \A s \in Store : image[s].version = stateFile.seen.version
    /\ clean = "plain" => stateFile.seen.auth = NoRoots
    /\ clean = "auth" =>
         /\ Readable(ChosenRoots(stateFile.seen))
         /\ ChosenRoots(stateFile.seen).version = stateFile.seen.version
         /\ \A s \in Store : image[s].paging = PageBytes(ChosenRoots(stateFile.seen).layout)

\* "Refuse to open on mismatch.": an open that is refused leaves the pages of
\* the image as they were.
RefusedOpenKeepsImage ==
  [][(\E command \in Commands, auth, save \in BOOLEAN :
         reopen(command, auth, save)) /\ session' = Idle =>
       \A s \in Store : image'[s].version = image[s].version]_vars
=============================================================================
