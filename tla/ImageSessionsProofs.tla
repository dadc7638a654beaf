------------------------ MODULE ImageSessionsProofs ------------------------
(***************************************************************************)
(* Proofs about ImageSessions, for every set of deployments: what an         *)
(* authenticated session answers from, and that directories whose commands   *)
(* ended well reopen.                                                        *)
(***************************************************************************)
EXTENDS ImageSessions, TLAPS

-----------------------------------------------------------------------------
(* Types.                                                                   *)

Version == Nat \cup {Mixed}

\* Roots that verify something, and the auth of a snapshot.
StoreRoots == [kind : {"roots"}, layout : {"sidecar", "embedded"}, version : Nat]
BoundRoots == StoreRoots \cup {NoRoots}

StateContents ==
  {Absent, Torn} \cup [kind : {"state"}, build : Nat, version : Nat, auth : BoundRoots]
AuthContents == {Absent, Torn} \cup StoreRoots
TableContents == {Absent, Torn} \cup [kind : {"table"}, build : Nat]

Building == {"build_table", "build_auth", "build_state"}
Running == {"running", "flush_meta", "flush_payload", "save_state", "save_auth"}

CleanFlags == {"no", "plain", "auth"}

Sessions ==
  [pc : Building \cup Running \cup {"idle"}, command : Commands \cup {"none", "build"},
   auth : BOOLEAN, save : BOOLEAN, build : Nat, ctl : Nat, table : Nat, roots : BoundRoots,
   served : BOOLEAN, was : CleanFlags, view : [Store -> Version]]

Images == [Store -> [paging : {1, 2}, version : Version, kept : Version]]

SessionTypes ==
  /\ deployment \in Deployments
  /\ version \in Nat /\ builds \in Nat
  /\ image \in Images
  /\ stateFile \in [seen : StateContents, kept : StateContents]
  /\ authFile \in [seen : AuthContents, kept : AuthContents]
  /\ tableFile \in [seen : TableContents, kept : TableContents]
  /\ session \in Sessions
  /\ clean \in CleanFlags
  /\ session.pc = "idle" => session = Idle

\* A session with --auth-store has roots, one without has none, and only one
\* without --no-save comes to saving.
FlagsInv ==
  /\ session.pc = "build_auth" => session.roots # NoRoots
  /\ session.pc \in Running =>
       /\ session.auth <=> session.roots # NoRoots
       /\ session.pc \in {"save_state", "save_auth"} => session.save
       /\ session.pc = "save_auth" => session.auth

-----------------------------------------------------------------------------
(* The inductive invariants.                                                *)

\* Where states bind roots, they bind those of their own version.
Binds(roots, v) == roots \in StoreRoots /\ roots.version = v

BoundInv ==
  RootsAreBound =>
    /\ Readable(stateFile.seen) => Binds(stateFile.seen.auth, stateFile.seen.version)
    /\ Readable(stateFile.kept) => Binds(stateFile.kept.auth, stateFile.kept.version)
    /\ session.pc # "idle" => Binds(session.roots, session.ctl)

\* Without a loss of power no state is of a version to come.
BoundedInv ==
  ~deployment.power =>
    /\ Readable(stateFile.seen) => stateFile.seen.version <= version
    /\ session.ctl <= version

AtLeast(v, w) == v = Mixed \/ v >= w
Above(v, w) == v = Mixed \/ v > w

\* The flush before a save has brought the pages of the session to the images.
FlushedInv ==
  /\ session.pc \in {"flush_payload", "save_state", "save_auth"} =>
       image["meta"].version = session.view["meta"]
  /\ session.pc \in {"save_state", "save_auth"} =>
       image["payload"].version = session.view["payload"]

\* In a directory built once, pages are never older than the state, and roots
\* never newer.
PagesNotOlder ==
  Readable(stateFile.seen) =>
    /\ stateFile.seen.auth.version <= stateFile.seen.version
    /\ Readable(authFile.seen) => authFile.seen.version <= stateFile.seen.version
    /\ \A s \in Store : AtLeast(image[s].version, stateFile.seen.version)

FirstBuild ==
  session.pc \in Building =>
    /\ ~Readable(stateFile.seen)
    /\ session.roots.version <= session.ctl
    /\ Readable(authFile.seen) => authFile.seen.version <= session.ctl
    /\ \A s \in Store : image[s].version = session.ctl

SessionNotOlder ==
  session.pc \in Running =>
    /\ Readable(stateFile.seen)
    /\ stateFile.seen.version <= session.ctl
    /\ session.roots.version <= session.ctl
    /\ \A s \in Store : AtLeast(session.view[s], session.ctl)
    /\ session.pc = "save_auth" => stateFile.seen.version = session.ctl

OnceInv ==
  BuiltOnce =>
    /\ builds = 0 => session = Idle /\ stateFile.seen = Absent /\ authFile.seen = Absent
    /\ PagesNotOlder
    /\ FirstBuild
    /\ SessionNotOlder

\* A description that is not the one of the state's table means that the pages
\* are newer than the state.
TableOrNewer ==
  Readable(stateFile.seen) /\ deployment.direct =>
    \/ Readable(tableFile.seen) /\ tableFile.seen.build = stateFile.seen.build
    \/ \A s \in Store : Above(image[s].version, stateFile.seen.version)

TableBuild ==
  session.pc \in Building =>
    /\ \A s \in Store : image[s].version = session.ctl
    /\ Readable(stateFile.seen) => stateFile.seen.version < session.ctl
    /\ deployment.direct /\ session.pc # "build_table" => tableFile.seen = Table(session.build)

SessionTable ==
  session.pc \in Running =>
    /\ Readable(stateFile.seen)
    /\ stateFile.seen.version <= session.ctl
    /\ stateFile.seen.build = session.build
    /\ deployment.direct => Readable(tableFile.seen) /\ tableFile.seen.build = session.table
    /\ \/ session.table = session.build
       \/ deployment.direct /\ \A s \in Store : Above(session.view[s], session.ctl)

TableInv == ~deployment.power => TableOrNewer /\ TableBuild /\ SessionTable

\* What a directory is like that can be reopened with the flags.
Reopens(flags) ==
  /\ Readable(stateFile.seen)
  /\ \A s \in Store : /\ image[s].version = stateFile.seen.version
                      /\ image[s].kept = stateFile.seen.version
                      /\ image[s].paging = 2 => stateFile.seen.auth.layout = "embedded"
  /\ flags = "plain" => stateFile.seen.auth = NoRoots
  /\ flags = "auth" =>
       /\ ChosenRoots(stateFile.seen) \in StoreRoots
       /\ ChosenRoots(stateFile.seen).version = stateFile.seen.version
       /\ \A s \in Store : image[s].paging = PageBytes(ChosenRoots(stateFile.seen).layout)

\* The pages and roots of a session that will leave a clean directory.
WillReopen ==
  IF session.auth
  THEN session.roots.version = session.ctl
       /\ \A s \in Store : image[s].paging = PageBytes(session.roots.layout)
  ELSE session.roots = NoRoots

Unsaved == ~session.served /\ session.pc # "save_auth"

FlushedKept ==
  /\ session.pc \in {"flush_payload", "save_state", "save_auth"} =>
       image["meta"].kept = session.view["meta"]
  /\ session.pc \in {"save_state", "save_auth"} =>
       image["payload"].kept = session.view["payload"]

PagingChosen == \A s \in Store : image[s].paging = 2 => "embedded" \in deployment.layouts

CleanBuild ==
  session.pc \in Building =>
    /\ clean = "no"
    /\ session.roots.layout \in deployment.layouts \cup {"plain"}
    /\ session.roots # NoRoots => session.roots.version = session.ctl
    /\ \A s \in Store : /\ image[s].paging = PageBytes(session.roots.layout)
                        /\ image[s].version = session.ctl /\ image[s].kept = session.ctl
    /\ session.pc = "build_state" /\ session.roots # NoRoots => authFile.seen = session.roots

\* A session of a clean directory.
SessionOfClean ==
  session.was # "no" =>
    /\ \A s \in Store :
         /\ session.view[s] = session.ctl
         /\ image[s].paging = 2 => session.auth /\ session.roots.layout = "embedded"
    /\ Unsaved => clean = session.was /\ session.ctl = stateFile.seen.version
    /\ session.was = Flags \/ session.served => WillReopen

CleanSession ==
  session.pc \in Running =>
    /\ clean \in {"no", session.was}
    /\ session.served => clean = "no"
    /\ session.pc = "save_auth" => clean = "no" /\ stateFile.seen = snapshot
    /\ SessionOfClean

CleanInv ==
  ~deployment.power /\ FlagsKeepPages =>
    /\ PagingChosen
    /\ clean # "no" => Reopens(clean)
    /\ CleanBuild
    /\ CleanSession

SessionsInv ==
  /\ SessionTypes /\ FlagsInv /\ BoundInv /\ BoundedInv
  /\ FlushedInv /\ FlushedKept /\ OnceInv /\ TableInv /\ CleanInv

-----------------------------------------------------------------------------
(* Types are kept.                                                          *)

PCs == Building \cup Running \cup {"idle"}

\* A command that reaches another point keeps everything else.
LEMMA AtFields ==
  ASSUME session \in Sessions, NEW pc \in PCs
  PROVE  /\ At(pc) \in Sessions
         /\ At(pc).pc = pc /\ At(pc).command = session.command
         /\ At(pc).auth = session.auth /\ At(pc).save = session.save
         /\ At(pc).build = session.build /\ At(pc).ctl = session.ctl
         /\ At(pc).table = session.table /\ At(pc).roots = session.roots
         /\ At(pc).served = session.served /\ At(pc).was = session.was
         /\ At(pc).view = session.view
BY DEF At, Sessions, PCs

LEMMA IdleFields ==
  /\ Idle \in Sessions
  /\ Idle.pc = "idle" /\ Idle.ctl = 0 /\ Idle.auth = FALSE
BY DEF Idle, Sessions, BoundRoots, CleanFlags, Version, Mixed, Store

LEMMA NoRootsFields ==
  /\ NoRoots.layout = "plain" /\ NoRoots.version = Mixed
  /\ NoRoots \notin StoreRoots /\ NoRoots.kind = "roots"
BY DEF NoRoots, Roots, StoreRoots, Mixed

LEMMA RootsOfType ==
  ASSUME NEW layout \in Layout, NEW v \in Nat
  PROVE  /\ RootsOf(layout, v) \in BoundRoots
         /\ layout = "plain" => RootsOf(layout, v) = NoRoots
         /\ layout # "plain" => RootsOf(layout, v) \in StoreRoots /\ RootsOf(layout, v).version = v
         /\ RootsOf(layout, v).layout = layout
BY NoRootsFields DEF RootsOf, Roots, StoreRoots, BoundRoots, Layout

\* Readable contents are what a save wrote.
LEMMA ReadableState ==
  ASSUME NEW c \in StateContents
  PROVE  /\ Readable(c) => /\ c \in [kind : {"state"}, build : Nat, version : Nat, auth : BoundRoots]
                           /\ c.build \in Nat /\ c.version \in Nat /\ c.auth \in BoundRoots
         /\ ~Readable(c) => c \in {Absent, Torn}
         /\ ~Readable(Absent) /\ ~Readable(Torn)
BY DEF StateContents, Readable, Absent, Torn

LEMMA ReadableAuth ==
  ASSUME NEW c \in AuthContents
  PROVE  Readable(c) <=> c \in StoreRoots
BY DEF AuthContents, Readable, Absent, Torn, StoreRoots

LEMMA ReadableTable ==
  ASSUME NEW c \in TableContents
  PROVE  Readable(c) => c.build \in Nat
BY DEF TableContents, Readable, Absent, Torn

LEMMA StateFields ==
  ASSUME NEW b \in Nat, NEW v \in Nat, NEW r \in BoundRoots
  PROVE  /\ State(b, v, r) \in StateContents /\ Readable(State(b, v, r))
         /\ State(b, v, r).build = b /\ State(b, v, r).version = v /\ State(b, v, r).auth = r
BY DEF State, StateContents, Readable

LEMMA TableFields ==
  ASSUME NEW b \in Nat
  PROVE  Table(b) \in TableContents /\ Readable(Table(b)) /\ Table(b).build = b
BY DEF Table, TableContents, Readable

LEMMA SavedFields ==
  ASSUME NEW file, NEW c
  PROVE  save_atomic(file, c).seen = c /\ save_atomic(file, c).kept = file.kept
BY DEF save_atomic

LEMMA BoundRootsFields ==
  ASSUME NEW r \in BoundRoots
  PROVE  /\ r.layout \in Layout /\ r.version \in Version
         /\ r.layout = "plain" <=> r = NoRoots
         /\ r # NoRoots => r \in StoreRoots
         /\ RootsOf(r.layout, 0) = NoRoots <=> r = NoRoots
BY NoRootsFields DEF BoundRoots, StoreRoots, Layout, Version, Mixed, RootsOf, Roots

LEMMA DeploymentFields ==
  ASSUME SessionTypes
  PROVE  /\ deployment.direct \in BOOLEAN /\ deployment.sealed \in BOOLEAN
         /\ deployment.cached \in BOOLEAN /\ deployment.legacy \in BOOLEAN
         /\ deployment.forgets \in BOOLEAN /\ deployment.power \in BOOLEAN
         /\ deployment.layouts \in SUBSET Layout
BY DeploymentsAssumption DEF SessionTypes

LEMMA PagesType ==
  ASSUME NEW p \in {1, 2}, NEW v \in Version, NEW k \in Version
  PROVE  /\ Pages(p, v, k) \in [paging : {1, 2}, version : Version, kept : Version]
         /\ Pages(p, v, k).paging = p /\ Pages(p, v, k).version = v /\ Pages(p, v, k).kept = k
BY DEF Pages

LEMMA ImageFields ==
  ASSUME image \in Images, NEW s \in Store
  PROVE  /\ image[s].paging \in {1, 2} /\ image[s].version \in Version /\ image[s].kept \in Version
         /\ image[s] = Pages(image[s].paging, image[s].version, image[s].kept)
BY DEF Images, Pages

LEMMA SessionFields ==
  ASSUME session \in Sessions
  PROVE  /\ session.pc \in PCs /\ session.auth \in BOOLEAN /\ session.save \in BOOLEAN
         /\ session.command \in Commands \cup {"none", "build"}
         /\ session.build \in Nat /\ session.ctl \in Nat /\ session.table \in Nat
         /\ session.roots \in BoundRoots /\ session.served \in BOOLEAN
         /\ session.was \in CleanFlags /\ session.view \in [Store -> Version]
         /\ \A s \in Store : session.view[s] \in Version
BY DEF Sessions, PCs

LEMMA VersionFacts ==
  /\ Mixed \in Version /\ Mixed = -1
  /\ \A n \in Nat : n \in Version /\ n # Mixed /\ n + 1 \in Nat
  /\ \A layout : PageBytes(layout) \in {1, 2}
  /\ \A layout : PageBytes(layout) = 2 <=> layout = "embedded"
  /\ "meta" \in Store /\ "payload" \in Store
BY DEF Version, Mixed, PageBytes, Store

LEMMA BuildSessionFields ==
  ASSUME SessionTypes, NEW layout \in Layout
  PROVE  /\ BuildSession(layout) \in Sessions
         /\ BuildSession(layout).pc \in Building
         /\ BuildSession(layout).pc = "build_state" => layout = "plain" /\ ~deployment.direct
         /\ BuildSession(layout).pc # "build_table" => ~deployment.direct
         /\ BuildSession(layout).build = builds + 1
         /\ BuildSession(layout).ctl = version + 1
         /\ BuildSession(layout).roots = RootsOf(layout, version + 1)
PROOF
  <1>1. version + 1 \in Nat /\ builds + 1 \in Nat
    BY DEF SessionTypes
  <1>2. RootsOf(layout, version + 1) \in BoundRoots
    BY <1>1, RootsOfType
  <1>3. (IF deployment.direct THEN "build_table" ELSE AfterTable(layout)) \in Building
    BY DEF AfterTable, Building
  <1>4. [s \in Store |-> version + 1] \in [Store -> Version]
    BY <1>1, VersionFacts
  <1>5. BuildSession(layout) \in Sessions
    BY <1>1, <1>2, <1>3, <1>4 DEF BuildSession, Sessions, CleanFlags
  <1>6. /\ BuildSession(layout).build = builds + 1 /\ BuildSession(layout).ctl = version + 1
        /\ BuildSession(layout).roots = RootsOf(layout, version + 1)
        /\ BuildSession(layout).pc = IF deployment.direct THEN "build_table" ELSE AfterTable(layout)
    BY DEF BuildSession
  <1> QED
    BY <1>3, <1>5, <1>6 DEF AfterTable

LEMMA ServedFields ==
  ASSUME SessionTypes
  PROVE  /\ Served \in Sessions
         /\ Served.pc = "running" /\ Served.auth = session.auth /\ Served.save = session.save
         /\ Served.build = session.build /\ Served.ctl = version + 1
         /\ Served.table = session.table /\ Served.served = TRUE /\ Served.was = session.was
         /\ Served.roots = RootsOf(session.roots.layout, version + 1)
         /\ \A s \in Store : Served.view[s] = Written(s, version + 1)
PROOF
  <1>0. session \in Sessions /\ version + 1 \in Nat
    BY DEF SessionTypes
  <1>1. RootsOf(session.roots.layout, version + 1) \in BoundRoots
    BY <1>0, SessionFields, BoundRootsFields, RootsOfType
  <1>2. [s \in Store |-> Written(s, version + 1)] \in [Store -> Version]
    BY <1>0, VersionFacts DEF Written
  <1>3. Served \in Sessions
    BY <1>0, <1>1, <1>2, SessionFields DEF Served, Sessions, Running
  <1> QED
    BY <1>3 DEF Served

\* The roots a session is opened with.
OpenedRoots(auth) == IF auth THEN ChosenRoots(stateFile.seen) ELSE NoRoots

\* What an open that is not refused leaves.
OpenedAs(auth, save, table) ==
  /\ session' \in Sessions
  /\ session'.pc = "running" /\ session'.auth = auth /\ session'.save = save
  /\ session'.build = stateFile.seen.build /\ session'.ctl = stateFile.seen.version
  /\ session'.table = table /\ session'.roots = OpenedRoots(auth)
  /\ session'.served = FALSE /\ session'.was = clean
  /\ \A s \in Store : session'.view[s] = image'[s].version
  /\ validate_bound_auth_state(stateFile.seen.auth, OpenedRoots(auth))

LEMMA ResizedFields ==
  ASSUME image \in Images, NEW s \in Store, NEW len \in {1, 2}
  PROVE  /\ Resized(image[s], len).paging = image[s].paging
         /\ \/ Resized(image[s], len) = image[s]
            \/ /\ len = 1 /\ image[s].paging = 2
               /\ Resized(image[s], len).version = Mixed
               /\ Resized(image[s], len).kept = Mixed
         /\ Resized(image[s], len) \in [paging : {1, 2}, version : Version, kept : Version]
BY ImageFields, PagesType, VersionFacts DEF Resized, Images

LEMMA OpenedFields ==
  ASSUME SessionTypes, NEW command \in Commands, NEW auth \in BOOLEAN, NEW save \in BOOLEAN,
         NEW table \in Nat, Opened(command, auth, save, table)
  PROVE  /\ Readable(stateFile.seen)
         /\ OpenedRoots(auth) \in BoundRoots
         /\ auth <=> OpenedRoots(auth) # NoRoots
         /\ auth \/ deployment.forgets \/ stateFile.seen.auth = NoRoots
         /\ image' \in Images
         /\ \A s \in Store : image'[s] = Resized(image[s], PageBytes(OpenedRoots(auth).layout))
         /\ session' = Idle \/ OpenedAs(auth, save, table)
         /\ UNCHANGED <<deployment, version, builds, stateFile, authFile, tableFile, clean>>
PROOF
  <1>1. ~LoadFails(auth)
    BY DEF Opened
  <1>2. Readable(stateFile.seen)
    BY <1>1 DEF LoadFails
  <1>3. stateFile.seen \in StateContents /\ authFile.seen \in AuthContents /\ session \in Sessions
        /\ image \in Images
    BY DEF SessionTypes
  <1>4. /\ stateFile.seen.build \in Nat /\ stateFile.seen.version \in Nat
        /\ stateFile.seen.auth \in BoundRoots
    BY <1>2, <1>3, ReadableState
  <1>5. auth => ChosenRoots(stateFile.seen) \in StoreRoots
    BY <1>1, <1>2, <1>3, <1>4, ReadableAuth, BoundRootsFields DEF ChosenRoots, LoadFails
  <1>6. OpenedRoots(auth) \in BoundRoots /\ (auth <=> OpenedRoots(auth) # NoRoots)
    BY <1>5, NoRootsFields DEF OpenedRoots, BoundRoots
  <1>7. image' = [s \in Store |-> Resized(image[s], PageBytes(OpenedRoots(auth).layout))]
    BY DEF Opened, OpenedRoots
  <1>8. image' \in Images
    BY <1>3, <1>7, ResizedFields, VersionFacts DEF Images
  <1>9. [s \in Store |-> image'[s].version] \in [Store -> Version]
    BY <1>8 DEF Images
  <1>10. clean \in CleanFlags
    BY DEF SessionTypes
  <1>11. session' = Idle \/ OpenedAs(auth, save, table)
    <2>1. CASE ~validate_bound_auth_state(stateFile.seen.auth, OpenedRoots(auth))
      BY <2>1 DEF Opened, OpenedRoots
    <2>2. CASE validate_bound_auth_state(stateFile.seen.auth, OpenedRoots(auth))
      <3>1. session' =
              [pc |-> "running", command |-> command, auth |-> auth, save |-> save,
               build |-> stateFile.seen.build, ctl |-> stateFile.seen.version,
               table |-> table, roots |-> OpenedRoots(auth), served |-> FALSE, was |-> clean,
               view |-> [s \in Store |-> image'[s].version]]
        BY <2>2 DEF Opened, OpenedRoots
      <3>2. session' \in Sessions
        BY <3>1, <1>4, <1>6, <1>9, <1>10 DEF Sessions, Running
      <3> QED
        BY <2>2, <3>1, <3>2 DEF OpenedAs
    <2> QED
      BY <2>1, <2>2
  <1> QED
    BY <1>2, <1>6, <1>7, <1>8, <1>11 DEF Opened, files

\* Both kinds of sessions are opened alike.
LEMMA ReopenFields ==
  ASSUME SessionTypes,
         \/ \E command \in Commands, auth, save \in BOOLEAN : reopen(command, auth, save)
         \/ \E auth, save \in BOOLEAN : reopen_direct(auth, save)
  PROVE  \E command \in Commands, auth \in BOOLEAN, save \in BOOLEAN, table \in Nat :
           /\ Opened(command, auth, save, table)
           /\ ~deployment.direct => table = stateFile.seen.build
           /\ deployment.direct => Readable(tableFile.seen) /\ table = tableFile.seen.build
PROOF
  <1>0. /\ stateFile.seen \in StateContents /\ tableFile.seen \in TableContents
        /\ deployment.direct \in BOOLEAN
    BY DeploymentFields DEF SessionTypes
  <1>1. CASE \E command \in Commands, auth, save \in BOOLEAN : reopen(command, auth, save)
    <2> PICK command \in Commands, auth \in BOOLEAN, save \in BOOLEAN : reopen(command, auth, save)
      BY <1>1
    <2>1. Opened(command, auth, save, stateFile.seen.build) /\ ~deployment.direct
      BY DEF reopen
    <2>2. stateFile.seen.build \in Nat
      BY <1>0, <2>1, ReadableState DEF Opened, LoadFails
    <2> QED
      BY <2>1, <2>2
  <1>2. CASE \E auth, save \in BOOLEAN : reopen_direct(auth, save)
    <2> PICK auth \in BOOLEAN, save \in BOOLEAN : reopen_direct(auth, save)
      BY <1>2
    <2>1. /\ Opened("bench-direct", auth, save, tableFile.seen.build)
          /\ deployment.direct /\ Readable(tableFile.seen)
      BY DEF reopen_direct
    <2>2. tableFile.seen.build \in Nat /\ "bench-direct" \in Commands
      BY <1>0, <2>1, ReadableTable DEF Commands
    <2> QED
      BY <2>1, <2>2
  <1> QED
    BY <1>1, <1>2

\* The value of clean after a command that returned Ok.
CleanAfter ==
  IF session.save
  THEN IF session.was = Flags \/ (session.was # "no" /\ session.served) THEN Flags ELSE "no"
  ELSE IF session.served THEN "no" ELSE clean

Moves(pc, next) == session.pc = pc /\ session' = At(next)
Ends(pc) == session.pc = pc /\ session' = Idle /\ clean' = CleanAfter

\* The steps of Advance, one by one.
LEMMA AdvanceSteps ==
  ASSUME session.pc \in Running, Advance(session.pc)
  PROVE  \/ Moves("running", "flush_meta") /\ clean' = clean
         \/ Moves("flush_meta", "flush_payload") /\ clean' = clean
         \/ Moves("flush_payload", "save_state") /\ session.save /\ clean' = clean
         \/ Ends("flush_payload") /\ ~session.save
         \/ Moves("save_state", "save_auth") /\ session.auth /\ clean' = "no"
         \/ Ends("save_state") /\ ~session.auth
         \/ Ends("save_auth")
PROOF
  <1>1. CASE session.pc = "running"
    BY <1>1 DEF Advance, After, Moves
  <1>2. CASE session.pc = "flush_meta"
    BY <1>2 DEF Advance, After, Moves
  <1>3. CASE session.pc = "flush_payload"
    BY <1>3 DEF Advance, After, Moves, Ends, CleanAfter
  <1>4. CASE session.pc = "save_state"
    BY <1>4 DEF Advance, After, Moves, Ends, CleanAfter
  <1>5. CASE session.pc = "save_auth"
    BY <1>5 DEF Advance, After, Moves, Ends, CleanAfter
  <1> QED
    BY <1>1, <1>2, <1>3, <1>4, <1>5 DEF Running

LEMMA AdvanceTypes ==
  ASSUME SessionTypes, session.pc \in Running, Advance(session.pc)
  PROVE  session' \in Sessions /\ clean' \in CleanFlags /\ (session'.pc = "idle" => session' = Idle)
PROOF
  <1>1. session \in Sessions /\ clean \in CleanFlags
    BY DEF SessionTypes
  <1>2. CleanAfter \in CleanFlags
    BY <1>1 DEF CleanAfter, CleanFlags, Flags
  <1>3. \A pc \in PCs : At(pc) \in Sessions /\ At(pc).pc = pc
    BY <1>1, AtFields
  <1> QED
    BY <1>1, <1>2, <1>3, AdvanceSteps, IdleFields DEF Moves, Ends, PCs, Running, CleanFlags

LEMMA SessionTypesInit == Init => SessionTypes
PROOF
  <1> SUFFICES ASSUME Init PROVE SessionTypes
    OBVIOUS
  <1>1. image \in Images
    BY PagesType, VersionFacts DEF Init, Images
  <1> QED
    BY <1>1, IdleFields DEF Init, SessionTypes, StateContents, AuthContents, TableContents, CleanFlags

LEMMA BuildTypes ==
  ASSUME SessionTypes, FlagsInv,
         (\E layout \in deployment.layouts : build_pages(layout)) \/ build_table \/ build_auth
           \/ build_state
  PROVE  SessionTypes'
PROOF
  <1>0. session \in Sessions /\ image \in Images /\ version \in Nat /\ builds \in Nat
        /\ deployment.layouts \in SUBSET Layout
    BY DeploymentFields DEF SessionTypes
  <1>1. CASE \E layout \in deployment.layouts : build_pages(layout)
    <2> PICK layout \in deployment.layouts : build_pages(layout)
      BY <1>1
    <2>1. layout \in Layout /\ version + 1 \in Version
      BY <1>0, VersionFacts
    <2>2. image' \in Images
      BY <2>1, PagesType, VersionFacts DEF build_pages, Images
    <2>3. session' \in Sessions /\ (session'.pc = "idle" => session' = Idle)
      BY <2>1, BuildSessionFields, IdleFields DEF build_pages, Building
    <2> QED
      BY <1>0, <2>2, <2>3 DEF build_pages, SessionTypes, files, CleanFlags
  <1>2. CASE build_table
    <2>1. session' \in Sessions /\ (session'.pc = "idle" => session' = Idle)
      BY <1>0, <1>2, AtFields, IdleFields DEF build_table, AfterTable, PCs, Building
    <2>2. tableFile' \in [seen : TableContents, kept : TableContents]
      BY <1>0, <1>2, SessionFields, TableFields
         DEF build_table, SessionTypes, save_atomic, TableContents
    <2> QED
      BY <1>2, <2>1, <2>2 DEF build_table, SessionTypes
  <1>3. CASE build_auth
    <2>1. session' \in Sessions /\ session'.pc # "idle"
      BY <1>0, <1>3, AtFields DEF build_auth, PCs, Building
    <2>2. session.roots \in AuthContents
      BY <1>0, <1>3, SessionFields, BoundRootsFields DEF build_auth, FlagsInv, AuthContents
    <2> QED
      BY <1>3, <2>1, <2>2 DEF build_auth, SessionTypes, save_atomic
  <1>4. CASE build_state
    <2>1. State(session.build, session.ctl,
            IF deployment.legacy THEN NoRoots ELSE session.roots) \in StateContents
      BY <1>0, SessionFields, StateFields DEF BoundRoots
    <2> QED
      BY <1>4, <2>1, IdleFields DEF build_state, SessionTypes, save_atomic, CleanFlags
  <1> QED
    BY <1>1, <1>2, <1>3, <1>4

LEMMA RunTypes ==
  ASSUME SessionTypes, run_batch \/ bin_mismatch \/ direct_mismatch \/ batch_fails
  PROVE  SessionTypes'
PROOF
  <1>0. session \in Sessions /\ image \in Images /\ version \in Nat
    BY DEF SessionTypes
  <1>1. \A s \in Store : /\ Spoilt(image[s]) \in [paging : {1, 2}, version : Version, kept : Version]
                         /\ image[s] \in [paging : {1, 2}, version : Version, kept : Version]
    BY <1>0, ImageFields, PagesType, VersionFacts DEF Spoilt, Images
  <1>2. CASE run_batch
    <2>1. session' \in Sessions /\ session'.pc # "idle"
      BY <1>2, ServedFields DEF run_batch
    <2>2. \A s \in Store : Written(s, version + 1) \in Version
      BY <1>0, VersionFacts DEF Written
    <2>3. image' \in Images
      <3> PICK torn \in SUBSET Store :
             image' = [s \in Store |->
               Pages(image[s].paging,
                     IF ~deployment.cached THEN Written(s, version + 1)
                     ELSE IF s \in torn THEN Mixed ELSE image[s].version,
                     image[s].kept)]
        BY <1>2 DEF run_batch
      <3>1. \A s \in Store : /\ image[s].paging \in {1, 2} /\ image[s].version \in Version
                             /\ image[s].kept \in Version
        BY <1>0, ImageFields
      <3>2. \A s \in Store :
              (IF ~deployment.cached THEN Written(s, version + 1)
               ELSE IF s \in torn THEN Mixed ELSE image[s].version) \in Version
        BY <2>2, <3>1, VersionFacts
      <3>3. \A s \in Store : \A v \in Version :
              Pages(image[s].paging, v, image[s].kept) \in [paging : {1, 2}, version : Version, kept : Version]
        BY <3>1, PagesType
      <3> QED
        BY <3>2, <3>3 DEF Images
    <2> QED
      BY <1>0, <1>2, <2>1, <2>3 DEF run_batch, SessionTypes, files, CleanFlags
  <1>3. CASE bin_mismatch \/ direct_mismatch
    <2>1. WrongAnswer
      BY <1>3 DEF bin_mismatch, direct_mismatch
    <2>2. image' \in Images
      BY <1>1, <2>1 DEF WrongAnswer, Images
    <2> QED
      BY <2>1, <2>2, IdleFields DEF WrongAnswer, Stop, files, SessionTypes, CleanFlags
  <1>4. CASE batch_fails
    <2>1. image' \in Images /\ clean' \in CleanFlags
      BY <1>0, <1>1, <1>4 DEF batch_fails, Images, SessionTypes, CleanFlags
    <2> QED
      BY <1>4, <2>1, IdleFields DEF batch_fails, Stop, files, SessionTypes
  <1> QED
    BY <1>2, <1>3, <1>4

LEMMA LeaveTypes ==
  ASSUME SessionTypes, FlagsInv, finish_ops \/ flush \/ flush_fails \/ save_state \/ save_auth \/ stop
  PROVE  SessionTypes'
PROOF
  <1>0. session \in Sessions /\ image \in Images
    BY DEF SessionTypes
  <1>1. CASE finish_ops
    BY <1>1, AdvanceTypes DEF finish_ops, Running, SessionTypes, files
  <1>2. CASE flush
    <2>1. image' \in Images
      BY <1>0, <1>2, ImageFields, PagesType, SessionFields DEF flush, Images
    <2>2. session.pc \in Running /\ Advance(session.pc)
      BY <1>2 DEF flush, Running
    <2> QED
      BY <1>2, <2>1, <2>2, AdvanceTypes DEF flush, SessionTypes, files
  <1>3. CASE flush_fails
    <2>1. image' \in Images
      <3>1. \A s \in Store : Spoilt(image[s]) \in [paging : {1, 2}, version : Version, kept : Version]
        BY <1>0, ImageFields, PagesType, VersionFacts DEF Spoilt
      <3>2. \A s \in Store : image[s] \in [paging : {1, 2}, version : Version, kept : Version]
        BY <1>0 DEF Images
      <3> QED
        BY <1>3, <3>1, <3>2 DEF flush_fails, Images
    <2> QED
      BY <1>3, <2>1, IdleFields DEF flush_fails, Stop, SessionTypes, files
  <1>4. CASE save_state
    <2>1. snapshot \in StateContents
      BY <1>0, SessionFields, StateFields DEF snapshot
    <2>2. session.pc \in Running /\ Advance(session.pc)
      BY <1>4 DEF save_state, Running
    <2> QED
      BY <1>4, <2>1, <2>2, AdvanceTypes DEF save_state, SessionTypes, save_atomic
  <1>5. CASE save_auth
    <2>1. session.pc \in Running /\ Advance(session.pc)
      BY <1>5 DEF save_auth, Running
    <2>2. session.roots \in AuthContents
      BY <1>0, <1>5, <2>1, SessionFields, BoundRootsFields DEF save_auth, FlagsInv, AuthContents
    <2> QED
      BY <1>5, <2>1, <2>2, AdvanceTypes DEF save_auth, SessionTypes, save_atomic
  <1>6. CASE stop
    BY <1>6, IdleFields DEF stop, Stop, SessionTypes, files
  <1> QED
    BY <1>1, <1>2, <1>3, <1>4, <1>5, <1>6

\* What a loss of power leaves of the files.
LEMMA SurvivorTypes ==
  ASSUME SessionTypes
  PROVE  /\ \A c \in Survives(stateFile, Truncated(stateFile.seen)) :
              /\ c \in StateContents
              /\ \/ c = stateFile.seen \/ c = stateFile.kept \/ c = Torn
                 \/ ~deployment.sealed
         /\ \A c \in Survives(authFile, {Torn}) : c \in AuthContents
         /\ \A c \in Survives(tableFile, {Torn}) : c \in TableContents
         /\ \A s \in Store : \A p \in SurvivingPages(image[s]) :
              p \in [paging : {1, 2}, version : Version, kept : Version]
PROOF
  <1>1. /\ stateFile.seen \in StateContents /\ stateFile.kept \in StateContents
        /\ Torn \in StateContents /\ Torn \in AuthContents /\ Torn \in TableContents
        /\ image \in Images
    BY DEF SessionTypes, StateContents, AuthContents, TableContents
  <1>2. \A c \in Truncated(stateFile.seen) :
          c \in StateContents /\ (c = Torn \/ ~deployment.sealed)
    BY <1>1, ReadableState, StateFields DEF Truncated, BoundRoots
  <1>3. \A c \in Survives(stateFile, Truncated(stateFile.seen)) :
              /\ c \in StateContents
              /\ \/ c = stateFile.seen \/ c = stateFile.kept \/ c = Torn
                 \/ ~deployment.sealed
    BY <1>1, <1>2 DEF Survives
  <1>4. /\ \A c \in Survives(authFile, {Torn}) : c \in AuthContents
        /\ \A c \in Survives(tableFile, {Torn}) : c \in TableContents
    BY <1>1 DEF Survives, SessionTypes
  <1>5. ASSUME NEW s \in Store, NEW p \in SurvivingPages(image[s])
        PROVE  p \in [paging : {1, 2}, version : Version, kept : Version]
    <2>1. PICK v \in {image[s].kept, image[s].version, Mixed} : p = Pages(image[s].paging, v, v)
      BY <1>5 DEF SurvivingPages
    <2>2. v \in Version /\ image[s].paging \in {1, 2}
      BY <1>1, <2>1, ImageFields, VersionFacts
    <2> QED
      BY <2>1, <2>2, PagesType
  <1> QED
    BY <1>3, <1>4, <1>5

LEMMA PowerTypes ==
  ASSUME SessionTypes, writeback \/ power_loss
  PROVE  SessionTypes'
PROOF
  <1>0. image \in Images
    BY DEF SessionTypes
  <1>1. CASE writeback
    <2>1. image' \in Images
      BY <1>0, <1>1, ImageFields, PagesType DEF writeback, Images
    <2> QED
      BY <1>1, <2>1 DEF writeback, SessionTypes, files, written_back
  <1>2. CASE power_loss
    <2>1. image' \in Images
      <3> PICK meta \in SurvivingPages(image["meta"]), payload \in SurvivingPages(image["payload"]) :
             image' = [s \in Store |-> IF s = "meta" THEN meta ELSE payload]
        BY <1>2 DEF power_loss
      <3>1. /\ meta \in [paging : {1, 2}, version : Version, kept : Version]
            /\ payload \in [paging : {1, 2}, version : Version, kept : Version]
        BY SurvivorTypes, VersionFacts
      <3> QED
        BY <3>1 DEF Images
    <2> QED
      <3>1. stateFile' \in [seen : StateContents, kept : StateContents]
        BY <1>2, SurvivorTypes DEF power_loss
      <3>2. authFile' \in [seen : AuthContents, kept : AuthContents]
        <4>1. PICK c \in Survives(authFile, {Torn}) : authFile' = [seen |-> c, kept |-> c]
          BY <1>2 DEF power_loss
        <4>2. c \in AuthContents
          BY <4>1, SurvivorTypes
        <4> QED
          BY <4>1, <4>2
      <3>3. tableFile' \in [seen : TableContents, kept : TableContents]
        <4>1. PICK c \in Survives(tableFile, {Torn}) : tableFile' = [seen |-> c, kept |-> c]
          BY <1>2 DEF power_loss
        <4>2. c \in TableContents
          BY <4>1, SurvivorTypes
        <4> QED
          BY <4>1, <4>2
      <3> QED
        BY <1>2, <2>1, <3>1, <3>2, <3>3, IdleFields DEF power_loss, SessionTypes, CleanFlags
  <1> QED
    BY <1>1, <1>2

LEMMA OpenTypes ==
  ASSUME SessionTypes,
         \/ \E command \in Commands, auth, save \in BOOLEAN : reopen(command, auth, save)
         \/ \E auth, save \in BOOLEAN : reopen_direct(auth, save)
  PROVE  SessionTypes'
PROOF
  <1> PICK command \in Commands, auth \in BOOLEAN, save \in BOOLEAN, table \in Nat :
           Opened(command, auth, save, table)
    BY ReopenFields
  <1> QED
    BY OpenedFields, IdleFields DEF SessionTypes, OpenedAs

-----------------------------------------------------------------------------
(* The kinds of steps.  Most parts of the invariant only look at some of     *)
(* them.                                                                    *)

Builds ==
  (\E layout \in deployment.layouts : build_pages(layout)) \/ build_table \/ build_auth \/ build_state
Opens ==
  \/ \E command \in Commands, auth, save \in BOOLEAN : reopen(command, auth, save)
  \/ \E auth, save \in BOOLEAN : reopen_direct(auth, save)
Runs == run_batch \/ bin_mismatch \/ direct_mismatch \/ batch_fails
Leaves == finish_ops \/ flush \/ flush_fails \/ save_state \/ save_auth \/ stop
Fails == writeback \/ power_loss
Refuses == \E layout \in deployment.layouts : build_refused(layout)

\* A build that is refused leaves or cuts the images and nothing else.
LEMMA RefusesFields ==
  ASSUME SessionTypes, Refuses
  PROVE  /\ session' = Idle /\ clean' = "no"
         /\ UNCHANGED <<deployment, version, builds, session, stateFile, authFile, tableFile>>
         /\ image' \in Images
         /\ \A s \in Store : /\ image'[s].paging = image[s].paging
                              /\ image'[s].version \in {Mixed, image[s].version}
PROOF
  <1>0. image \in Images /\ deployment.layouts \in SUBSET Layout
    BY DeploymentFields DEF SessionTypes
  <1> PICK layout \in deployment.layouts : build_refused(layout)
    BY DEF Refuses
  <1>1. image' = [s \in Store |-> Resized(image[s], PageBytes(layout))]
    BY DEF build_refused
  <1>2. PageBytes(layout) \in {1, 2}
    BY DEF PageBytes
  <1>3. image' \in Images
    BY <1>0, <1>1, <1>2, ResizedFields DEF Images
  <1>4. \A s \in Store : /\ image'[s].paging = image[s].paging
                         /\ image'[s].version \in {Mixed, image[s].version}
    BY <1>0, <1>1, <1>2, ResizedFields
  <1> QED
    BY <1>3, <1>4 DEF build_refused, files

LEMMA KindsOfSteps ==
  ASSUME [Next]_vars
  PROVE  Builds \/ Opens \/ Runs \/ Leaves \/ Fails \/ Refuses \/ UNCHANGED vars
BY DEF Next, Builds, Opens, Runs, Leaves, Fails, Refuses, load_fails

LEMMA SessionTypesStep ==
  ASSUME SessionTypes, FlagsInv, [Next]_vars
  PROVE  SessionTypes'
PROOF
  <1>1. CASE UNCHANGED vars
    BY <1>1 DEF vars, SessionTypes
  <1>2. CASE Refuses
    BY <1>2, RefusesFields, IdleFields DEF SessionTypes, CleanFlags
  <1> QED
    BY <1>1, <1>2, KindsOfSteps, BuildTypes, OpenTypes, RunTypes, LeaveTypes, PowerTypes
       DEF Builds, Opens, Runs, Leaves, Fails

-----------------------------------------------------------------------------
(* Flags and roots.                                                         *)

\* The points of a command and its fields after a step.
LEMMA FlagsStep ==
  ASSUME SessionTypes, FlagsInv, [Next]_vars
  PROVE  FlagsInv'
PROOF
  <1>0. session \in Sessions
    BY DEF SessionTypes
  <1>1. CASE session' = Idle
    BY <1>1, IdleFields DEF FlagsInv, Running
  <1>2. CASE UNCHANGED vars
    BY <1>2 DEF vars, FlagsInv
  <1>3. CASE Builds
    <2>1. ASSUME NEW layout \in deployment.layouts, build_pages(layout)
          PROVE  FlagsInv'
      <3>1. layout \in Layout /\ version + 1 \in Nat
        BY DeploymentFields DEF SessionTypes
      <3>2. CASE session' = BuildSession(layout)
        <4>1. session'.roots = RootsOf(layout, version + 1) /\ session'.pc \in Building
          BY <3>1, <3>2, BuildSessionFields
        <4>2. session'.pc = "build_auth" => layout # "plain"
          BY <3>2 DEF BuildSession, AfterTable
        <4> QED
          BY <3>1, <4>1, <4>2, RootsOfType, NoRootsFields DEF FlagsInv, Building, Running
      <3> QED
        BY <1>1, <2>1, <3>2 DEF build_pages
    <2>2. CASE build_table
      <3>1. CASE session' = At(AfterTable(session.roots.layout))
        BY <1>0, <3>1, AtFields, SessionFields, BoundRootsFields
           DEF FlagsInv, AfterTable, PCs, Building, Running
      <3> QED
        BY <1>1, <2>2, <3>1 DEF build_table
    <2>3. CASE build_auth
      BY <1>0, <2>3, AtFields DEF build_auth, FlagsInv, PCs, Building, Running
    <2>4. CASE build_state
      BY <1>1, <2>4 DEF build_state
    <2> QED
      BY <1>3, <2>1, <2>2, <2>3, <2>4 DEF Builds
  <1>4. CASE Opens
    <2> PICK command \in Commands, auth \in BOOLEAN, save \in BOOLEAN, table \in Nat :
             Opened(command, auth, save, table)
      BY <1>4, ReopenFields DEF Opens
    <2> QED
      BY <1>1, OpenedFields DEF OpenedAs, FlagsInv
  <1>5. CASE Runs
    <2>1. CASE run_batch
      <3>1. session.pc = "running" /\ session' = Served
        BY <2>1 DEF run_batch
      <3>2. session.roots \in BoundRoots /\ version + 1 \in Nat
        BY <1>0, SessionFields DEF SessionTypes
      <3>3. session'.roots = NoRoots <=> session.roots = NoRoots
        BY <3>1, <3>2, ServedFields, RootsOfType, BoundRootsFields, NoRootsFields
      <3> QED
        BY <3>1, <3>3, ServedFields DEF FlagsInv, Running
    <2> QED
      BY <1>1, <1>5, <2>1 DEF Runs, bin_mismatch, direct_mismatch, WrongAnswer, batch_fails, Stop
  <1>6. CASE Leaves
    <2>1. CASE session.pc \in Running /\ Advance(session.pc)
      BY <1>0, <1>1, <2>1, AdvanceSteps, AtFields DEF Moves, Ends, FlagsInv, PCs, Running
    <2>2. \/ session' = Idle
          \/ session.pc \in Running /\ Advance(session.pc)
      BY <1>6 DEF Leaves, finish_ops, flush, flush_fails, save_state, save_auth, stop, Stop, Running
    <2> QED
      BY <1>1, <2>1, <2>2
  <1>7. CASE Fails
    BY <1>1, <1>7 DEF Fails, writeback, power_loss, FlagsInv
  <1>8. CASE Refuses
    BY <1>1, <1>8, RefusesFields
  <1> QED
    BY <1>2, <1>3, <1>4, <1>5, <1>6, <1>7, <1>8, KindsOfSteps

LEMMA DeploymentKept ==
  ASSUME [Next]_vars
  PROVE  deployment' = deployment
PROOF
  <1>1. CASE Builds
    BY <1>1 DEF Builds, build_pages, build_table, build_auth, build_state
  <1>2. CASE Opens
    BY <1>2 DEF Opens, reopen, reopen_direct, Opened
  <1>3. CASE Runs
    BY <1>3 DEF Runs, run_batch, bin_mismatch, direct_mismatch, WrongAnswer, batch_fails, Stop
  <1>4. CASE Leaves
    BY <1>4 DEF Leaves, finish_ops, flush, flush_fails, save_state, save_auth, stop, Stop
  <1>5. CASE Fails
    BY <1>5 DEF Fails, writeback, power_loss
  <1>6. CASE Refuses
    BY <1>6 DEF Refuses, build_refused
  <1> QED
    BY <1>1, <1>2, <1>3, <1>4, <1>5, <1>6, KindsOfSteps DEF vars

\* A command that ends, by itself or not, or goes on to its next point.
LEMMA LeavesSteps ==
  ASSUME Leaves
  PROVE  \/ /\ session' = Idle
            /\ UNCHANGED <<stateFile, authFile, clean>>
            /\ image' = image \/ flush_fails
         \/ /\ session.pc \in Running /\ Advance(session.pc)
            /\ session.pc # "save_state" => UNCHANGED stateFile
            /\ session.pc = "save_state" => stateFile' = save_atomic(stateFile, snapshot)
            /\ session.pc # "save_auth" => UNCHANGED authFile
            /\ session.pc = "save_auth" => authFile' = save_atomic(authFile, session.roots)
            /\ session.pc \notin {"flush_meta", "flush_payload"} => UNCHANGED image
            /\ session.pc \in {"flush_meta", "flush_payload"} => flush
PROOF
  <1>1. CASE finish_ops
    BY <1>1 DEF finish_ops, Running, files
  <1>2. CASE flush
    BY <1>2 DEF flush, Running, files
  <1>3. CASE flush_fails
    BY <1>3 DEF flush_fails, Stop, files
  <1>4. CASE save_state
    BY <1>4 DEF save_state, Running
  <1>5. CASE save_auth
    BY <1>5 DEF save_auth, Running
  <1>6. CASE stop
    BY <1>6 DEF stop, Stop, files
  <1> QED
    BY <1>1, <1>2, <1>3, <1>4, <1>5, <1>6 DEF Leaves

LEMMA LeavesKeep ==
  ASSUME Leaves
  PROVE  UNCHANGED <<version, builds, tableFile>>
BY DEF Leaves, finish_ops, flush, flush_fails, save_state, save_auth, stop, Stop, files

LEMMA RunsKeep ==
  ASSUME Runs
  PROVE  /\ UNCHANGED <<builds, stateFile, authFile, tableFile>>
         /\ session.pc = "running"
         /\ \/ run_batch
            \/ session' = Idle /\ version' = version
BY DEF Runs, run_batch, bin_mismatch, direct_mismatch, WrongAnswer, batch_fails, Stop, files

LEMMA BoundStep ==
  ASSUME SessionTypes, BoundInv, [Next]_vars
  PROVE  BoundInv'
PROOF
  <1> SUFFICES ASSUME RootsAreBound, RootsAreBound' PROVE BoundInv'
    BY DeploymentKept DEF BoundInv, RootsAreBound
  <1>0. /\ session \in Sessions /\ version + 1 \in Nat
        /\ ~deployment.legacy /\ "plain" \notin deployment.layouts
    BY DEF SessionTypes, RootsAreBound
  <1>1. /\ Readable(stateFile.seen) => Binds(stateFile.seen.auth, stateFile.seen.version)
        /\ Readable(stateFile.kept) => Binds(stateFile.kept.auth, stateFile.kept.version)
        /\ session.pc # "idle" => Binds(session.roots, session.ctl)
    BY DEF BoundInv
  <1>2. CASE UNCHANGED <<stateFile, session>>
    BY <1>2 DEF BoundInv, RootsAreBound
  <1>3. CASE UNCHANGED stateFile /\ session' = Idle
    BY <1>1, <1>3, IdleFields DEF BoundInv
  <1>4. CASE \E pc \in PCs : session.pc # "idle" /\ session' = At(pc) /\ UNCHANGED stateFile
    BY <1>0, <1>1, <1>4, AtFields DEF BoundInv
  <1>5. CASE Builds
    <2>1. ASSUME NEW layout \in deployment.layouts, build_pages(layout)
          PROVE  BoundInv'
      <3>1. layout \in Layout /\ layout # "plain"
        BY <1>0, DeploymentFields
      <3>2. CASE session' = BuildSession(layout)
        <4>1. Binds(session'.roots, session'.ctl)
          BY <1>0, <3>1, <3>2, BuildSessionFields, RootsOfType DEF Binds
        <4> QED
          BY <1>1, <2>1, <4>1 DEF build_pages, files, BoundInv
      <3> QED
        BY <1>3, <2>1, <3>2 DEF build_pages, files
    <2>2. CASE build_table
      BY <1>3, <1>4, <2>2 DEF build_table, AfterTable, PCs, Building
    <2>3. CASE build_auth
      BY <1>4, <2>3 DEF build_auth, PCs, Building
    <2>4. CASE build_state
      <3>1. stateFile'.seen = State(session.build, session.ctl, session.roots)
            /\ stateFile'.kept = stateFile.kept /\ session' = Idle
        BY <1>0, <2>4, SavedFields DEF build_state
      <3>2. Binds(session.roots, session.ctl)
        BY <1>1, <2>4 DEF build_state
      <3>3. Binds(stateFile'.seen.auth, stateFile'.seen.version)
        BY <1>0, <3>1, <3>2, SessionFields, StateFields
      <3> QED
        BY <1>1, <3>1, <3>3, IdleFields DEF BoundInv
    <2> QED
      BY <1>5, <2>1, <2>2, <2>3, <2>4 DEF Builds
  <1>6. CASE Opens
    <2> PICK command \in Commands, auth \in BOOLEAN, save \in BOOLEAN, table \in Nat :
             Opened(command, auth, save, table)
      BY <1>6, ReopenFields DEF Opens
    <2>1. Readable(stateFile.seen) /\ UNCHANGED stateFile
      BY OpenedFields
    <2>2. CASE OpenedAs(auth, save, table)
      <3>1. OpenedRoots(auth) = stateFile.seen.auth
        BY <1>1, <2>1, <2>2, NoRootsFields DEF OpenedAs, validate_bound_auth_state, Binds
      <3>2. Binds(session'.roots, session'.ctl)
        BY <1>1, <2>1, <2>2, <3>1 DEF OpenedAs
      <3> QED
        BY <1>1, <2>1, <3>2 DEF BoundInv
    <2> QED
      BY <1>3, <2>1, <2>2, OpenedFields
  <1>7. CASE Runs
    <2>1. CASE run_batch
      <3>1. session.pc = "running" /\ session' = Served
        BY <2>1 DEF run_batch
      <3>2. session.roots.layout \in Layout /\ session.roots.layout # "plain"
        BY <1>0, <1>1, <3>1, NoRootsFields, BoundRootsFields, SessionFields DEF Binds
      <3>3. Binds(session'.roots, session'.ctl)
        BY <1>0, <3>1, <3>2, ServedFields, RootsOfType DEF Binds
      <3> QED
        BY <1>1, <1>7, <3>3, RunsKeep DEF BoundInv
    <2> QED
      BY <1>3, <1>7, <2>1, RunsKeep
  <1>8. CASE Leaves
    <2>1. CASE session.pc = "save_state" /\ stateFile' = save_atomic(stateFile, snapshot)
               /\ Advance(session.pc)
      <3>1. Binds(session.roots, session.ctl)
        BY <1>1, <2>1
      <3>2. /\ stateFile'.seen = State(session.build, session.ctl, session.roots)
            /\ stateFile'.kept = stateFile.kept
        BY <2>1, SavedFields DEF snapshot
      <3>3. Binds(stateFile'.seen.auth, stateFile'.seen.version)
        BY <1>0, <3>1, <3>2, SessionFields, StateFields
      <3>4. session' = Idle \/ session' = At("save_auth")
        BY <2>1, AdvanceSteps DEF Moves, Ends, Running
      <3>5. session'.pc # "idle" => Binds(session'.roots, session'.ctl)
        BY <1>0, <3>1, <3>4, IdleFields, AtFields DEF PCs, Running
      <3> QED
        BY <1>1, <3>2, <3>3, <3>5 DEF BoundInv
    <2>2. CASE session.pc \in Running /\ session.pc # "save_state" /\ Advance(session.pc)
               /\ UNCHANGED stateFile
      BY <1>3, <1>4, <2>2, AdvanceSteps DEF Moves, Ends, PCs, Running
    <2> QED
      BY <1>3, <1>8, <2>1, <2>2, LeavesSteps
  <1>9. CASE Fails
    <2>1. CASE writeback
      <3>1. CASE stateFile' = written_back(stateFile)
        <4>1. stateFile'.seen = stateFile.seen /\ stateFile'.kept = stateFile.seen
          BY <3>1 DEF written_back
        <4> QED
          BY <1>1, <2>1, <4>1 DEF writeback, BoundInv
      <3> QED
        BY <1>2, <2>1, <3>1 DEF writeback, files
    <2>2. CASE power_loss
      <3>1. PICK c \in Survives(stateFile, Truncated(stateFile.seen)) :
                   stateFile' = [seen |-> c, kept |-> c]
        BY <2>2 DEF power_loss
      <3>2. c = stateFile.seen \/ c = stateFile.kept \/ c = Torn
        BY <2>2, <3>1, SurvivorTypes DEF power_loss, RootsAreBound
      <3>3. Readable(c) => Binds(c.auth, c.version)
        BY <1>1, <3>2 DEF Readable, Torn
      <3> QED
        BY <2>2, <3>1, <3>3, IdleFields DEF power_loss, BoundInv
    <2> QED
      BY <1>9, <2>1, <2>2 DEF Fails
  <1>10. CASE Refuses
    BY <1>3, <1>10, RefusesFields
  <1> QED
    BY <1>2, <1>5, <1>6, <1>7, <1>8, <1>9, <1>10, KindsOfSteps DEF vars

-----------------------------------------------------------------------------
(* Versions, and the flush before a save.                                   *)

LEMMA BoundedStep ==
  ASSUME SessionTypes, BoundedInv, [Next]_vars
  PROVE  BoundedInv'
PROOF
  <1> SUFFICES ASSUME ~deployment.power PROVE BoundedInv'
    BY DeploymentKept DEF BoundedInv
  <1>0. /\ session \in Sessions /\ version \in Nat /\ session.ctl \in Nat
        /\ stateFile.seen \in StateContents
        /\ deployment' = deployment
    BY SessionFields, DeploymentKept DEF SessionTypes
  <1>1. /\ Readable(stateFile.seen) => stateFile.seen.version <= version
        /\ session.ctl <= version
    BY DEF BoundedInv
  <1>2. CASE UNCHANGED <<version, stateFile>> /\ session'.ctl \in {0, session.ctl}
    BY <1>0, <1>1, <1>2 DEF BoundedInv
  <1>3. CASE Builds
    <2>1. ASSUME NEW layout \in deployment.layouts, build_pages(layout)
          PROVE  BoundedInv'
      <3>1. session'.ctl = version + 1 \/ session'.ctl = 0
        BY <2>1, BuildSessionFields, DeploymentFields, IdleFields DEF build_pages
      <3>2. version' = version + 1 /\ UNCHANGED stateFile
        BY <2>1 DEF build_pages, files
      <3> QED
        BY <1>0, <1>1, <3>1, <3>2, ReadableState DEF BoundedInv
    <2>2. CASE build_table
      BY <1>0, <1>2, <2>2, AtFields, IdleFields DEF build_table, AfterTable, PCs, Building
    <2>3. CASE build_auth
      BY <1>0, <1>2, <2>3, AtFields DEF build_auth, PCs, Building
    <2>4. CASE build_state
      <3>1. /\ stateFile'.seen = State(session.build, session.ctl,
                  IF deployment.legacy THEN NoRoots ELSE session.roots)
            /\ session' = Idle /\ version' = version
        BY <2>4, SavedFields DEF build_state
      <3>2. stateFile'.seen.version = session.ctl
        BY <3>1 DEF State
      <3> QED
        BY <1>0, <1>1, <3>1, <3>2, IdleFields DEF BoundedInv
    <2> QED
      BY <1>3, <2>1, <2>2, <2>3, <2>4 DEF Builds
  <1>4. CASE Opens
    <2> PICK command \in Commands, auth \in BOOLEAN, save \in BOOLEAN, table \in Nat :
             Opened(command, auth, save, table)
      BY <1>4, ReopenFields DEF Opens
    <2> QED
      BY <1>0, <1>1, <1>2, OpenedFields, IdleFields DEF OpenedAs, BoundedInv
  <1>5. CASE Runs
    <2>1. CASE run_batch
      <3>1. session'.ctl = version + 1 /\ version' = version + 1
        BY <2>1, ServedFields DEF run_batch
      <3> QED
        BY <1>0, <1>1, <1>5, <3>1, RunsKeep, ReadableState DEF BoundedInv
    <2> QED
      BY <1>2, <1>5, <2>1, RunsKeep, IdleFields
  <1>6. CASE Leaves
    <2>1. session'.ctl \in {0, session.ctl}
      BY <1>0, <1>6, LeavesSteps, AdvanceSteps, IdleFields, AtFields DEF Moves, Ends, PCs, Running
    <2>2. stateFile'.seen = stateFile.seen \/ stateFile'.seen.version = session.ctl
      BY <1>6, LeavesSteps, SavedFields DEF snapshot, State
    <2> QED
      BY <1>0, <1>1, <1>6, <2>1, <2>2, LeavesKeep DEF BoundedInv
  <1>7. CASE Fails
    BY <1>7 DEF Fails, writeback, power_loss
  <1>8. CASE UNCHANGED vars
    BY <1>2, <1>8 DEF vars
  <1>9. CASE Refuses
    BY <1>2, <1>9, RefusesFields
  <1> QED
    BY <1>3, <1>4, <1>5, <1>6, <1>7, <1>8, <1>9, KindsOfSteps

LEMMA FlushedStep ==
  ASSUME SessionTypes, FlushedInv, FlushedKept, [Next]_vars
  PROVE  FlushedInv' /\ FlushedKept'
PROOF
  <1>0. session \in Sessions /\ image \in Images /\ "meta" \in Store /\ "payload" \in Store
    BY VersionFacts DEF SessionTypes
  <1>1. CASE session'.pc \notin {"flush_payload", "save_state", "save_auth"}
    BY <1>1 DEF FlushedInv, FlushedKept
  <1>2. CASE UNCHANGED <<session, image>>
    BY <1>2 DEF FlushedInv, FlushedKept
  <1>3. CASE Builds
    <2>1. ASSUME NEW layout \in deployment.layouts, build_pages(layout)
          PROVE  session'.pc \in Building \cup {"idle"}
      BY <2>1, BuildSessionFields, DeploymentFields, IdleFields DEF build_pages
    <2>2. session'.pc \in Building \cup {"idle"}
      BY <1>0, <1>3, <2>1, AtFields, IdleFields
         DEF Builds, build_table, build_auth, build_state, AfterTable, PCs, Building
    <2> QED
      BY <1>1, <2>2 DEF Building
  <1>4. CASE Opens
    <2> PICK command \in Commands, auth \in BOOLEAN, save \in BOOLEAN, table \in Nat :
             Opened(command, auth, save, table)
      BY <1>4, ReopenFields DEF Opens
    <2> QED
      BY <1>1, OpenedFields, IdleFields DEF OpenedAs
  <1>5. CASE Runs
    BY <1>1, <1>5, RunsKeep, ServedFields, IdleFields DEF run_batch
  <1>6. CASE Leaves
    <2>1. CASE session' = Idle
      BY <1>1, <2>1, IdleFields
    <2>2. CASE flush /\ session.pc \in Running
      <3>1. \A s \in Store : session.view[s] \in Version /\ image[s].paging \in {1, 2}
        BY <1>0, SessionFields, ImageFields
      <3>2. /\ session.pc \in {"flush_meta", "flush_payload"}
            /\ image' = [s \in Store |->
                 IF s = FlushedStore THEN Pages(image[s].paging, session.view[s], session.view[s])
                 ELSE image[s]]
        BY <2>2 DEF flush
      <3>3. CASE session.pc = "flush_meta"
        <4>1. image'["meta"].version = session.view["meta"] /\ image'["meta"].kept = session.view["meta"]
          BY <1>0, <3>1, <3>2, <3>3, PagesType DEF FlushedStore
        <4>2. session' = At("flush_payload")
          BY <2>2, <3>3, AdvanceSteps DEF flush, Moves, Ends
        <4> QED
          BY <1>0, <4>1, <4>2, AtFields DEF FlushedInv, FlushedKept, PCs, Running
      <3>4. CASE session.pc = "flush_payload"
        <4>1. /\ image'["payload"].version = session.view["payload"]
              /\ image'["payload"].kept = session.view["payload"]
              /\ image'["meta"] = image["meta"]
          BY <1>0, <3>1, <3>2, <3>4, PagesType DEF FlushedStore
        <4>2. session' = At("save_state") \/ session' = Idle
          BY <2>2, <3>4, AdvanceSteps DEF flush, Moves, Ends
        <4>3. CASE session' = At("save_state")
          <5>1. session'.view = session.view /\ session'.pc = "save_state"
            BY <1>0, <4>3, AtFields DEF PCs, Running
          <5> QED
            BY <3>4, <4>1, <5>1 DEF FlushedInv, FlushedKept
        <4> QED
          BY <2>1, <4>2, <4>3
      <3> QED
        BY <3>2, <3>3, <3>4
    <2>3. CASE UNCHANGED image /\ session.pc \in Running /\ Advance(session.pc)
               /\ session.pc \notin {"flush_meta", "flush_payload"}
      <3>1. \/ session' = Idle \/ session' = At("flush_meta")
            \/ session.pc = "save_state" /\ session' = At("save_auth")
        BY <2>3, AdvanceSteps DEF Moves, Ends
      <3>2. CASE session' = At("flush_meta")
        BY <1>0, <1>1, <3>2, AtFields DEF PCs, Running
      <3>3. CASE session.pc = "save_state" /\ session' = At("save_auth")
        <4>1. session'.view = session.view /\ session'.pc = "save_auth"
          BY <1>0, <3>3, AtFields DEF PCs, Running
        <4> QED
          BY <2>3, <3>3, <4>1 DEF FlushedInv, FlushedKept
      <3> QED
        BY <2>1, <3>1, <3>2, <3>3
    <2> QED
      BY <1>6, <2>1, <2>2, <2>3, LeavesSteps
  <1>7. CASE Fails
    <2>1. CASE writeback
      <3>1. session' = session
        BY <2>1 DEF writeback
      <3>2. \A s \in Store : /\ image'[s].version = image[s].version
                             /\ image'[s].kept \in {image[s].kept, image[s].version}
        <4>1. CASE image' = image
          BY <4>1
        <4>2. CASE \E s \in Store :
                     image' = [t \in Store |-> IF t # s THEN image[t]
                       ELSE Pages(image[t].paging, image[t].version, image[t].version)]
          BY <1>0, <4>2, ImageFields, PagesType
        <4> QED
          BY <2>1, <4>1, <4>2 DEF writeback
      <3> QED
        BY <1>0, <3>1, <3>2 DEF FlushedInv, FlushedKept
    <2> QED
      BY <1>1, <1>7, <2>1, IdleFields DEF Fails, power_loss
  <1>8. CASE UNCHANGED vars
    BY <1>2, <1>8 DEF vars
  <1>9. CASE Refuses
    BY <1>1, <1>9, RefusesFields, IdleFields
  <1> QED
    BY <1>3, <1>4, <1>5, <1>6, <1>7, <1>8, <1>9, KindsOfSteps

\* What the steps of a session do to the images: pages stay, become part of no
\* version, or, by a batch or a flush, become those of the session.
LEMMA ImagesAfter ==
  ASSUME SessionTypes, Runs \/ Leaves, NEW s \in Store
  PROVE  /\ image'[s].paging = image[s].paging
         /\ \/ image'[s].version = Mixed
            \/ image'[s].version = image[s].version
            \/ /\ session.pc \in {"flush_meta", "flush_payload"}
               /\ image'[s].version = session.view[s]
            \/ run_batch /\ image'[s].version = Written(s, version + 1)
PROOF
  <1>0. /\ session \in Sessions /\ image \in Images /\ session.view[s] \in Version
        /\ image[s].paging \in {1, 2} /\ image[s].version \in Version /\ image[s].kept \in Version
        /\ Mixed \in Version
    BY SessionFields, ImageFields, VersionFacts DEF SessionTypes
  <1>1. /\ Spoilt(image[s]).paging = image[s].paging /\ Spoilt(image[s]).version = Mixed
    BY <1>0, PagesType DEF Spoilt
  <1>2. CASE run_batch
    <2>1. Written(s, version + 1) \in Version
      BY VersionFacts DEF Written, SessionTypes
    <2>2. PICK v \in {Written(s, version + 1), Mixed, image[s].version} :
                 image'[s] = Pages(image[s].paging, v, image[s].kept)
      BY <1>2 DEF run_batch
    <2> QED
      BY <1>0, <1>2, <2>1, <2>2, PagesType
  <1>3. CASE flush
    <2>1. \/ image'[s] = image[s]
          \/ image'[s] = Pages(image[s].paging, session.view[s], session.view[s])
      BY <1>3 DEF flush
    <2> QED
      BY <1>0, <1>3, <2>1, PagesType DEF flush
  <1>4. CASE ~run_batch /\ ~flush
    <2>1. image'[s] = image[s] \/ image'[s] = Spoilt(image[s])
      BY <1>4 DEF Runs, Leaves, bin_mismatch, direct_mismatch, WrongAnswer, batch_fails,
                  finish_ops, flush_fails, save_state, save_auth, stop
    <2> QED
      BY <1>1, <2>1
  <1> QED
    BY <1>2, <1>3, <1>4

LEMMA VersionTypes ==
  ASSUME SessionTypes
  PROVE  /\ version \in Nat /\ version + 1 \in Nat /\ builds \in Nat
         /\ session \in Sessions /\ image \in Images
         /\ stateFile.seen \in StateContents /\ authFile.seen \in AuthContents
         /\ tableFile.seen \in TableContents
         /\ session.ctl \in Nat /\ session.build \in Nat /\ session.roots \in BoundRoots
         /\ session.roots.version \in Version /\ session.roots.layout \in Layout
         /\ \A s \in Store : session.view[s] \in Version /\ image[s].version \in Version
         /\ Readable(stateFile.seen) =>
              /\ stateFile.seen.version \in Nat /\ stateFile.seen.build \in Nat
              /\ stateFile.seen.auth \in BoundRoots /\ stateFile.seen.auth.version \in Version
         /\ Readable(authFile.seen) => authFile.seen.version \in Nat
PROOF
  <1>1. /\ version \in Nat /\ builds \in Nat /\ session \in Sessions /\ image \in Images
        /\ stateFile.seen \in StateContents /\ authFile.seen \in AuthContents
        /\ tableFile.seen \in TableContents
    BY DEF SessionTypes
  <1> QED
    BY <1>1, SessionFields, ImageFields, ReadableState, ReadableAuth, BoundRootsFields DEF StoreRoots

LEMMA OnceStep ==
  ASSUME SessionTypes, BoundedInv, FlagsInv, FlushedInv, OnceInv, [Next]_vars
  PROVE  OnceInv'
PROOF
  <1> SUFFICES ASSUME BuiltOnce' PROVE OnceInv'
    BY DEF OnceInv
  <1>0. ~deployment.power /\ deployment' = deployment
    BY DeploymentKept DEF BuiltOnce
  <1>1. BuiltOnce
    <2>1. builds' = builds \/ builds' = builds + 1
      <3>1. CASE Builds
        BY <3>1 DEF Builds, build_pages, build_table, build_auth, build_state
      <3>2. CASE Opens
        BY <3>2 DEF Opens, reopen, reopen_direct, Opened
      <3>3. CASE Fails
        BY <3>3 DEF Fails, writeback, power_loss
      <3>4. CASE Refuses
        BY <3>4 DEF Refuses, build_refused
      <3> QED
        BY <3>1, <3>2, <3>3, <3>4, KindsOfSteps, RunsKeep, LeavesKeep DEF vars
    <2> QED
      BY <1>0, <2>1, VersionTypes DEF BuiltOnce
  <1>2. /\ builds = 0 => session = Idle /\ stateFile.seen = Absent /\ authFile.seen = Absent
        /\ PagesNotOlder /\ FirstBuild /\ SessionNotOlder
        /\ session.ctl <= version
    BY <1>0, <1>1 DEF OnceInv, BoundedInv
  <1>3. ASSUME session.pc # "idle", builds' = builds
        PROVE  builds' # 0
    BY <1>2, <1>3, IdleFields
  <1>4. CASE UNCHANGED vars
    BY <1>2, <1>4 DEF vars, OnceInv, PagesNotOlder, FirstBuild, SessionNotOlder
  <1>5. CASE Builds
    <2>1. ASSUME NEW layout \in deployment.layouts, build_pages(layout)
          PROVE  OnceInv'
      <3>1. builds = 0 /\ builds' = 1 /\ version' = version + 1
            /\ UNCHANGED <<stateFile, authFile>>
        BY <2>1, VersionTypes DEF build_pages, files, BuiltOnce
      <3>2. ~Readable(stateFile'.seen) /\ ~Readable(authFile'.seen)
        BY <1>2, <3>1 DEF Readable, Absent
      <3>3. CASE session' = Idle
        BY <3>1, <3>2, <3>3, IdleFields
           DEF OnceInv, PagesNotOlder, FirstBuild, SessionNotOlder, Building, Running
      <3>4. CASE session' = BuildSession(layout) /\ \A s \in Store : image'[s].version = version + 1
        <4>1. layout \in Layout /\ version + 1 \in Nat
          BY DeploymentFields, VersionTypes
        <4>2. session'.pc \in Building /\ session'.ctl = version + 1
          BY <3>4, <4>1, BuildSessionFields
        <4>3. session'.roots.version <= session'.ctl
          BY <3>4, <4>1, BuildSessionFields, RootsOfType, NoRootsFields, VersionFacts
        <4> QED
          BY <3>1, <3>2, <3>4, <4>2, <4>3
             DEF OnceInv, PagesNotOlder, FirstBuild, SessionNotOlder, Building, Running
      <3>5. CASE session' # Idle
        <4>1. /\ session' = BuildSession(layout)
              /\ image' = [s \in Store |-> Pages(PageBytes(layout), version + 1, version + 1)]
          BY <2>1, <3>5 DEF build_pages
        <4>2. \A s \in Store : image'[s].version = version + 1
          BY <4>1 DEF Pages
        <4> QED
          BY <3>4, <4>1, <4>2
      <3> QED
        BY <3>3, <3>5
    <2>2. CASE build_table \/ build_auth
      <3>1. /\ session.pc \in Building /\ UNCHANGED <<builds, image, stateFile>>
            /\ authFile'.seen = authFile.seen \/ authFile'.seen = session.roots
            /\ \/ session' = Idle /\ authFile' = authFile
               \/ \E pc \in Building : session' = At(pc)
        BY <2>2, SavedFields DEF build_table, build_auth, AfterTable, Building
      <3>2. CASE session' = Idle /\ authFile' = authFile
        BY <1>2, <1>3, <3>1, <3>2, IdleFields
           DEF OnceInv, PagesNotOlder, FirstBuild, SessionNotOlder, Building, Running
      <3>3. ASSUME NEW pc \in Building, session' = At(pc)
            PROVE  OnceInv'
        <4>1. session'.pc \in Building /\ session'.ctl = session.ctl /\ session'.roots = session.roots
          BY <3>3, VersionTypes, AtFields DEF PCs
        <4>2. builds' # 0
          BY <1>3, <3>1 DEF Building
        <4> QED
          BY <1>2, <3>1, <4>1, <4>2
             DEF OnceInv, PagesNotOlder, FirstBuild, SessionNotOlder, Building, Running
      <3> QED
        BY <3>1, <3>2, <3>3
    <2>3. CASE build_state
      <3>1. /\ session.pc = "build_state" /\ session' = Idle /\ UNCHANGED <<builds, image, authFile>>
            /\ stateFile'.seen = State(session.build, session.ctl,
                  IF deployment.legacy THEN NoRoots ELSE session.roots)
        BY <2>3, SavedFields DEF build_state
      <3>2. /\ stateFile'.seen.version = session.ctl
            /\ stateFile'.seen.auth \in {NoRoots, session.roots}
        BY <3>1 DEF State
      <3>3. stateFile'.seen.auth.version <= session.ctl
        BY <1>2, <3>1, <3>2, VersionTypes, NoRootsFields, VersionFacts DEF FirstBuild, Building
      <3>4. PagesNotOlder'
        BY <1>2, <3>1, <3>2, <3>3, VersionTypes DEF PagesNotOlder, FirstBuild, Building, AtLeast
      <3> QED
        BY <1>3, <3>1, <3>4, IdleFields DEF OnceInv, FirstBuild, SessionNotOlder, Building, Running
    <2> QED
      BY <1>5, <2>1, <2>2, <2>3 DEF Builds
  <1>6. CASE Opens
    <2> PICK command \in Commands, auth \in BOOLEAN, save \in BOOLEAN, table \in Nat :
             Opened(command, auth, save, table)
      BY <1>6, ReopenFields DEF Opens
    <2>1. Readable(stateFile.seen) /\ UNCHANGED <<builds, stateFile, authFile>> /\ image' \in Images
      BY OpenedFields
    <2>2. \A s \in Store : image'[s].version \in {Mixed, image[s].version}
      BY OpenedFields, ResizedFields, VersionTypes, VersionFacts
    <2>3. PagesNotOlder'
      BY <1>2, <2>1, <2>2 DEF PagesNotOlder, AtLeast
    <2>4. builds' # 0
      BY <1>2, <2>1 DEF Readable, Absent
    <2>5. CASE session' = Idle
      BY <2>3, <2>4, <2>5, IdleFields DEF OnceInv, FirstBuild, SessionNotOlder, Building, Running
    <2>6. CASE OpenedAs(auth, save, table)
      <3>1. OpenedRoots(auth) \in {NoRoots, stateFile.seen.auth, authFile.seen}
            /\ OpenedRoots(auth) \in BoundRoots
        BY OpenedFields DEF OpenedRoots, ChosenRoots
      <3>2. OpenedRoots(auth).version <= stateFile.seen.version
        <4>1. CASE OpenedRoots(auth) = authFile.seen /\ OpenedRoots(auth) # NoRoots
          BY <1>2, <2>1, <3>1, <4>1, BoundRootsFields, ReadableAuth, VersionTypes DEF PagesNotOlder
        <4>2. CASE OpenedRoots(auth) = NoRoots
          BY <2>1, <4>2, NoRootsFields, VersionTypes, VersionFacts
        <4> QED
          BY <1>2, <2>1, <3>1, <4>1, <4>2 DEF PagesNotOlder
      <3>3. SessionNotOlder'
        BY <2>1, <2>3, <2>6, <3>2, VersionTypes DEF OpenedAs, SessionNotOlder, PagesNotOlder
      <3> QED
        BY <2>3, <2>4, <2>6, <3>3 DEF OnceInv, OpenedAs, FirstBuild, Building
    <2> QED
      BY <2>5, <2>6, OpenedFields
  <1>7. CASE Runs
    <2>1. /\ session.pc = "running" /\ UNCHANGED <<builds, stateFile, authFile>>
          /\ builds' # 0 /\ Readable(stateFile.seen)
      BY <1>2, <1>3, <1>7, RunsKeep DEF SessionNotOlder, Running
    <2>2. \A s \in Store : AtLeast(image'[s].version, stateFile.seen.version)
      <3> TAKE s \in Store
      <3>1. \/ image'[s].version \in {Mixed, image[s].version}
            \/ image'[s].version = Written(s, version + 1)
        BY <1>7, <2>1, ImagesAfter
      <3>2. Written(s, version + 1) \in {version + 1, Mixed}
        BY DEF Written
      <3> QED
        BY <1>2, <2>1, <3>1, <3>2, VersionTypes DEF PagesNotOlder, SessionNotOlder, AtLeast, Running
    <2>3. PagesNotOlder'
      BY <1>2, <2>1, <2>2 DEF PagesNotOlder
    <2>4. CASE session' = Idle
      BY <2>1, <2>3, <2>4, IdleFields DEF OnceInv, FirstBuild, SessionNotOlder, Building, Running
    <2>5. CASE session' = Served
      <3>1. session'.pc = "running" /\ session'.ctl = version + 1
            /\ \A s \in Store : session'.view[s] \in {version + 1, Mixed}
        BY <2>5, ServedFields DEF Written
      <3>2. session'.roots.version <= version + 1
        BY <2>5, ServedFields, VersionTypes, RootsOfType, NoRootsFields, VersionFacts
      <3>3. SessionNotOlder'
        BY <1>2, <2>1, <3>1, <3>2, VersionTypes DEF SessionNotOlder, AtLeast, Running
      <3> QED
        BY <2>1, <2>3, <3>1, <3>3 DEF OnceInv, FirstBuild, Building
    <2> QED
      BY <1>7, <2>4, <2>5, RunsKeep DEF run_batch
  <1>8. CASE Leaves
    <2>1. session.pc # "idle" /\ UNCHANGED builds
      BY <1>8, LeavesKeep, IdleFields
         DEF Leaves, finish_ops, flush, flush_fails, save_state, save_auth, stop, SessionTypes
    <2>2. builds' # 0
      BY <1>3, <2>1
    <2>3. ASSUME NEW s \in Store, Readable(stateFile.seen)
          PROVE  AtLeast(image'[s].version, stateFile.seen.version)
      <3>1. ~run_batch
        BY <1>8, LeavesKeep, VersionTypes DEF run_batch
      <3>2. \/ image'[s].version \in {Mixed, image[s].version}
            \/ session.pc \in Running /\ image'[s].version = session.view[s]
        BY <1>8, <2>3, <3>1, ImagesAfter DEF Running
      <3> QED
        BY <1>2, <2>3, <3>2, VersionTypes DEF PagesNotOlder, SessionNotOlder, AtLeast, Version, Mixed
    <2>4. ASSUME UNCHANGED <<stateFile, authFile>>
          PROVE  PagesNotOlder'
      BY <1>2, <2>3, <2>4 DEF PagesNotOlder
    <2>5. ASSUME session' = Idle, PagesNotOlder'
          PROVE  OnceInv'
      BY <2>2, <2>5, IdleFields DEF OnceInv, FirstBuild, SessionNotOlder, Building, Running
    <2>6. ASSUME session.pc \in Running, NEW pc \in Running, session' = At(pc), PagesNotOlder',
                 Readable(stateFile'.seen), stateFile'.seen.version <= session.ctl,
                 pc = "save_auth" => stateFile'.seen.version = session.ctl
          PROVE  OnceInv'
      <3>1. /\ session'.pc = pc /\ session'.ctl = session.ctl /\ session'.roots = session.roots
            /\ session'.view = session.view
        BY <2>6, VersionTypes, AtFields DEF PCs
      <3>2. SessionNotOlder'
        BY <1>2, <2>6, <3>1 DEF SessionNotOlder
      <3> QED
        BY <2>2, <2>6, <3>1, <3>2 DEF OnceInv, FirstBuild, Building, Running
    <2>7. CASE session.pc \in Running \ {"save_state", "save_auth"} /\ Advance(session.pc)
               /\ UNCHANGED <<stateFile, authFile>>
      <3>1. \/ session' = Idle
            \/ \E pc \in {"flush_meta", "flush_payload", "save_state"} : session' = At(pc)
        BY <2>7, AdvanceSteps DEF Moves, Ends
      <3>2. Readable(stateFile.seen) /\ stateFile.seen.version <= session.ctl
        BY <1>2, <2>7 DEF SessionNotOlder
      <3> QED
        BY <2>4, <2>5, <2>6, <2>7, <3>1, <3>2 DEF Running
    <2>8. CASE session.pc = "save_state" /\ Advance(session.pc) /\ UNCHANGED <<authFile, image>>
               /\ stateFile' = save_atomic(stateFile, snapshot)
      <3>1. stateFile'.seen = State(session.build, session.ctl, session.roots)
        BY <2>8, SavedFields DEF snapshot
      <3>2. /\ Readable(stateFile'.seen) /\ stateFile'.seen.version = session.ctl
            /\ stateFile'.seen.auth = session.roots
        BY <3>1, VersionTypes, StateFields
      <3>3. \A s \in Store : image[s].version = session.view[s]
        <4>1. /\ image["meta"].version = session.view["meta"]
              /\ image["payload"].version = session.view["payload"]
          BY <2>8 DEF FlushedInv
        <4> QED
          BY <4>1 DEF Store
      <3>4. PagesNotOlder'
        BY <1>2, <2>8, <3>2, <3>3, VersionTypes DEF PagesNotOlder, SessionNotOlder, Running
      <3>5. session' = Idle \/ session' = At("save_auth")
        BY <2>8, AdvanceSteps DEF Moves, Ends, Running
      <3> QED
        BY <2>5, <2>6, <2>8, <3>2, <3>4, <3>5, VersionTypes DEF Running
    <2>9. CASE session.pc = "save_auth" /\ Advance(session.pc) /\ UNCHANGED <<stateFile, image>>
               /\ authFile' = save_atomic(authFile, session.roots)
      <3>1. authFile'.seen = session.roots
        BY <2>9, SavedFields
      <3>2. PagesNotOlder'
        BY <1>2, <2>9, <3>1 DEF PagesNotOlder, SessionNotOlder, Running
      <3>3. session' = Idle
        BY <2>9, AdvanceSteps DEF Moves, Ends, Running
      <3> QED
        BY <2>5, <3>2, <3>3
    <2> QED
      BY <1>8, <2>4, <2>5, <2>7, <2>8, <2>9, LeavesSteps DEF Running
  <1>9. CASE Fails
    BY <1>0, <1>9 DEF Fails, writeback, power_loss
  <1>10. CASE Refuses
    <2>1. PagesNotOlder'
      BY <1>2, <1>10, RefusesFields DEF PagesNotOlder, AtLeast
    <2>2. FirstBuild' /\ SessionNotOlder'
      BY <1>2, <1>10, <2>1, RefusesFields, IdleFields DEF FirstBuild, SessionNotOlder, Building, Running
    <2> QED
      BY <1>2, <1>10, <2>1, <2>2, RefusesFields, IdleFields DEF OnceInv
  <1> QED
    BY <1>4, <1>5, <1>6, <1>7, <1>8, <1>9, <1>10, KindsOfSteps

-----------------------------------------------------------------------------
(* Descriptions of direct tables.                                           *)

LEMMA TableStep ==
  ASSUME SessionTypes, BoundedInv, FlushedInv, TableInv, [Next]_vars
  PROVE  TableInv'
PROOF
  <1> SUFFICES ASSUME ~deployment.power PROVE TableInv'
    BY DeploymentKept DEF TableInv
  <1>0. deployment' = deployment /\ deployment.direct \in BOOLEAN
    BY DeploymentKept, DeploymentFields
  <1>1. /\ TableBuild /\ TableOrNewer /\ SessionTable
        /\ session.ctl <= version
        /\ Readable(stateFile.seen) => stateFile.seen.version <= version
    BY DEF TableInv, BoundedInv
  <1>2. CASE UNCHANGED vars
    BY <1>1, <1>2 DEF vars, TableInv, TableBuild, TableOrNewer, SessionTable
  <1>3. ASSUME session' = Idle, TableOrNewer'
        PROVE  TableInv'
    BY <1>3, IdleFields DEF TableInv, TableBuild, SessionTable, Building, Running
  <1>4. CASE Builds
    <2>1. ASSUME NEW layout \in deployment.layouts, build_pages(layout)
          PROVE  TableInv'
      <3>1. /\ version' = version + 1 /\ UNCHANGED <<stateFile, tableFile>>
        BY <2>1 DEF build_pages, files
      <3>2. PICK written \in {{}, {"meta"}, Store} :
              /\ image' = [s \in Store |->
                   Pages(PageBytes(layout), IF s \in written THEN version + 1 ELSE Mixed,
                                            IF s \in written THEN version + 1 ELSE Mixed)]
              /\ session' = IF written = Store THEN BuildSession(layout) ELSE Idle
        BY <2>1 DEF build_pages
      <3>3. \A s \in Store : image'[s].version = IF s \in written THEN version + 1 ELSE Mixed
        BY <3>2 DEF Pages
      <3>4. TableOrNewer'
        BY <1>0, <1>1, <3>1, <3>3, VersionTypes DEF TableOrNewer, Above
      <3>5. CASE written = Store
        <4>1. layout \in Layout
          BY DeploymentFields
        <4>2. /\ session'.pc \in Building /\ session'.ctl = version + 1
              /\ session'.pc # "build_table" => ~deployment.direct
          BY <3>2, <3>5, <4>1, BuildSessionFields
        <4>3. TableBuild'
          BY <1>0, <1>1, <3>1, <3>3, <3>5, <4>2, VersionTypes DEF TableBuild
        <4> QED
          BY <3>4, <4>2, <4>3 DEF TableInv, SessionTable, Building, Running
      <3> QED
        BY <1>3, <3>2, <3>4, <3>5
    <2>2. CASE build_table
      <3>1. /\ session.pc = "build_table" /\ UNCHANGED <<stateFile, image, version>>
            /\ \/ session' = Idle
               \/ /\ session' = At(AfterTable(session.roots.layout))
                  /\ tableFile'.seen = Table(session.build)
        BY <2>2, SavedFields DEF build_table
      <3>2. TableOrNewer'
        BY <1>0, <1>1, <3>1, VersionTypes DEF TableOrNewer, TableBuild, Building, Above
      <3>3. CASE session' = At(AfterTable(session.roots.layout))
        <4>1. /\ session'.pc \in Building /\ session'.ctl = session.ctl
              /\ session'.build = session.build
          BY <3>3, VersionTypes, AtFields DEF PCs, AfterTable, Building
        <4>2. CASE session' # Idle
          BY <1>0, <1>1, <3>1, <3>2, <4>1, <4>2
             DEF TableInv, TableBuild, SessionTable, Building, Running
        <4> QED
          BY <1>3, <3>2, <4>2
      <3> QED
        BY <1>3, <3>1, <3>2, <3>3
    <2>3. CASE build_auth
      <3>1. /\ session.pc = "build_auth" /\ UNCHANGED <<stateFile, image, tableFile>>
            /\ session' = At("build_state")
        BY <2>3 DEF build_auth
      <3>2. /\ session'.pc = "build_state" /\ session'.ctl = session.ctl
            /\ session'.build = session.build
        BY <3>1, VersionTypes, AtFields DEF PCs, Building
      <3> QED
        BY <1>0, <1>1, <3>1, <3>2
           DEF TableInv, TableBuild, TableOrNewer, SessionTable, Building, Running
    <2>4. CASE build_state
      <3>1. /\ session.pc = "build_state" /\ session' = Idle /\ UNCHANGED <<image, tableFile>>
            /\ stateFile'.seen = State(session.build, session.ctl,
                  IF deployment.legacy THEN NoRoots ELSE session.roots)
        BY <2>4, SavedFields DEF build_state
      <3>2. stateFile'.seen.build = session.build
        BY <3>1 DEF State
      <3>3. deployment.direct => Readable(tableFile.seen) /\ tableFile.seen.build = session.build
        BY <1>1, <3>1, VersionTypes, TableFields DEF TableBuild, Building
      <3>4. TableOrNewer'
        BY <1>0, <3>1, <3>2, <3>3 DEF TableOrNewer
      <3> QED
        BY <1>3, <3>1, <3>4
    <2> QED
      BY <1>4, <2>1, <2>2, <2>3, <2>4 DEF Builds
  <1>5. CASE Opens
    <2> PICK command \in Commands, auth \in BOOLEAN, save \in BOOLEAN, table \in Nat :
             /\ Opened(command, auth, save, table)
             /\ ~deployment.direct => table = stateFile.seen.build
             /\ deployment.direct => Readable(tableFile.seen) /\ table = tableFile.seen.build
      BY <1>5, ReopenFields DEF Opens
    <2>1. Readable(stateFile.seen) /\ UNCHANGED <<stateFile, tableFile>>
      BY OpenedFields
    <2>2. \A s \in Store : image'[s].version \in {Mixed, image[s].version}
      BY OpenedFields, ResizedFields, VersionTypes, VersionFacts
    <2>3. TableOrNewer'
      BY <1>0, <1>1, <2>1, <2>2 DEF TableOrNewer, Above
    <2>4. CASE OpenedAs(auth, save, table)
      <3>1. SessionTable'
        BY <1>0, <2>1, <2>3, <2>4, VersionTypes DEF OpenedAs, SessionTable, TableOrNewer
      <3> QED
        BY <2>3, <2>4, <3>1 DEF TableInv, OpenedAs, TableBuild, Building
    <2> QED
      BY <1>3, <2>3, <2>4, OpenedFields
  <1>6. CASE Runs
    <2>1. session.pc = "running" /\ UNCHANGED <<stateFile, tableFile>> /\ Readable(stateFile.seen)
      BY <1>1, <1>6, RunsKeep DEF SessionTable, Running
    <2>2. \A s \in Store : \/ image'[s].version \in {Mixed, image[s].version}
                           \/ image'[s].version = Written(s, version + 1)
      BY <1>6, <2>1, ImagesAfter
    <2>3. \A s \in Store : Written(s, version + 1) \in {version + 1, Mixed}
      BY DEF Written
    <2>4. TableOrNewer'
      BY <1>0, <1>1, <2>1, <2>2, <2>3, VersionTypes DEF TableOrNewer, Above
    <2>5. CASE session' = Served
      <3>1. /\ session'.pc = "running" /\ session'.ctl = version + 1
            /\ session'.build = session.build /\ session'.table = session.table
            /\ \A s \in Store : session'.view[s] = Written(s, version + 1)
        BY <2>5, ServedFields
      <3>2. CASE session.table = session.build
        BY <1>0, <1>1, <2>1, <2>4, <3>1, <3>2, VersionTypes
           DEF TableInv, TableBuild, SessionTable, Building, Running
      <3>3. CASE deployment.direct /\ \A s \in Store : Above(session.view[s], session.ctl)
        <4>1. \A s \in Store : session'.view[s] = Mixed
          BY <3>1, <3>3, VersionTypes, VersionFacts DEF Written, Above
        <4> QED
          BY <1>0, <1>1, <2>1, <2>4, <3>1, <3>3, <4>1, VersionTypes
             DEF TableInv, TableBuild, SessionTable, Building, Running, Above
      <3> QED
        BY <1>1, <2>1, <3>2, <3>3 DEF SessionTable, Running
    <2> QED
      BY <1>3, <1>6, <2>4, <2>5, RunsKeep DEF run_batch
  <1>7. CASE Leaves
    <2>0. UNCHANGED <<tableFile, version>> /\ ~run_batch
      BY <1>7, LeavesKeep, VersionTypes DEF run_batch
    <2>1. \A s \in Store : \/ image'[s].version \in {Mixed, image[s].version}
                           \/ session.pc \in Running /\ image'[s].version = session.view[s]
      BY <1>7, <2>0, ImagesAfter DEF Running
    <2>2. ASSUME UNCHANGED stateFile
          PROVE  TableOrNewer'
      <3> SUFFICES ASSUME Readable(stateFile.seen), deployment.direct PROVE TableOrNewer'
        BY <1>0, <2>2 DEF TableOrNewer
      <3>1. CASE Readable(tableFile.seen) /\ tableFile.seen.build = stateFile.seen.build
        BY <2>0, <2>2, <3>1 DEF TableOrNewer
      <3>2. CASE ~(Readable(tableFile.seen) /\ tableFile.seen.build = stateFile.seen.build)
        <4>1. ASSUME NEW s \in Store
              PROVE  Above(image'[s].version, stateFile.seen.version)
          <5>1. Above(image[s].version, stateFile.seen.version)
            BY <1>1, <3>2 DEF TableOrNewer
          <5>2. session.pc \in Running => Above(session.view[s], session.ctl)
                                         /\ stateFile.seen.version <= session.ctl
            BY <1>1, <3>2 DEF SessionTable
          <5>3. stateFile.seen.version \in Nat /\ session.ctl \in Nat /\ session.view[s] \in Version
            BY VersionTypes
          <5> QED
            BY <2>1, <5>1, <5>2, <5>3 DEF Above, Version, Mixed
        <4> QED
          BY <2>2, <4>1 DEF TableOrNewer
      <3> QED
        BY <3>1, <3>2
    <2>3. ASSUME session.pc \in Running, NEW pc \in Running, session' = At(pc), TableOrNewer',
                 Readable(stateFile'.seen), stateFile'.seen.version <= session.ctl,
                 stateFile'.seen.build = session.build
          PROVE  TableInv'
      <3>1. /\ session'.pc = pc /\ session'.ctl = session.ctl /\ session'.build = session.build
            /\ session'.view = session.view /\ session'.table = session.table
        BY <2>3, VersionTypes, AtFields DEF PCs
      <3>2. SessionTable'
        BY <1>0, <1>1, <2>0, <2>3, <3>1 DEF SessionTable
      <3> QED
        BY <2>3, <3>1, <3>2 DEF TableInv, TableBuild, Building, Running
    <2>4. CASE session.pc \in Running \ {"save_state"} /\ Advance(session.pc) /\ UNCHANGED stateFile
      <3>1. \/ session' = Idle
            \/ \E pc \in {"flush_meta", "flush_payload", "save_state"} : session' = At(pc)
        BY <2>4, AdvanceSteps DEF Moves, Ends
      <3>2. Readable(stateFile.seen) /\ stateFile.seen.version <= session.ctl
            /\ stateFile.seen.build = session.build
        BY <1>1, <2>4 DEF SessionTable
      <3> QED
        BY <1>3, <2>2, <2>3, <2>4, <3>1, <3>2 DEF Running
    <2>5. CASE session.pc = "save_state" /\ Advance(session.pc) /\ UNCHANGED image
               /\ stateFile' = save_atomic(stateFile, snapshot)
      <3>1. stateFile'.seen = State(session.build, session.ctl, session.roots)
        BY <2>5, SavedFields DEF snapshot
      <3>2. /\ Readable(stateFile'.seen) /\ stateFile'.seen.version = session.ctl
            /\ stateFile'.seen.build = session.build
        BY <3>1, VersionTypes, StateFields
      <3>3. \A s \in Store : image[s].version = session.view[s]
        <4>1. /\ image["meta"].version = session.view["meta"]
              /\ image["payload"].version = session.view["payload"]
          BY <2>5 DEF FlushedInv
        <4> QED
          BY <4>1 DEF Store
      <3>4. TableOrNewer'
        BY <1>0, <1>1, <2>0, <2>5, <3>2, <3>3, VersionTypes DEF TableOrNewer, SessionTable, Running
      <3>5. session' = Idle \/ session' = At("save_auth")
        BY <2>5, AdvanceSteps DEF Moves, Ends, Running
      <3> QED
        BY <1>3, <2>3, <2>5, <3>2, <3>4, <3>5, VersionTypes DEF Running
    <2> QED
      BY <1>3, <1>7, <2>2, <2>4, <2>5, LeavesSteps DEF Running
  <1>8. CASE Fails
    BY <1>8 DEF Fails, writeback, power_loss
  <1>9. CASE Refuses
    <2>1. TableOrNewer'
      BY <1>0, <1>1, <1>9, RefusesFields DEF TableOrNewer, Above
    <2> QED
      BY <1>3, <1>9, <2>1, RefusesFields
  <1> QED
    BY <1>2, <1>4, <1>5, <1>6, <1>7, <1>8, <1>9, KindsOfSteps

-----------------------------------------------------------------------------
(* Directories whose commands ended well.                                   *)

LEMMA CleanBuilds ==
  ASSUME SessionTypes, FlagsInv, CleanInv, Builds, ~deployment.power, FlagsKeepPages
  PROVE  CleanInv'
PROOF
  <1>0. /\ PagingChosen /\ CleanBuild /\ (clean # "no" => Reopens(clean))
    BY DEF CleanInv
  <1>1. ASSUME NEW layout \in deployment.layouts, build_pages(layout)
        PROVE  CleanInv'
    <2>1. PICK written \in {{}, {"meta"}, Store} :
              /\ image' = [s \in Store |->
                   Pages(PageBytes(layout), IF s \in written THEN version + 1 ELSE Mixed,
                                            IF s \in written THEN version + 1 ELSE Mixed)]
              /\ session' = IF written = Store THEN BuildSession(layout) ELSE Idle
      BY <1>1 DEF build_pages
    <2>2. \A s \in Store :
            /\ image'[s].paging = PageBytes(layout)
            /\ image'[s].version = IF s \in written THEN version + 1 ELSE Mixed
            /\ image'[s].kept = IF s \in written THEN version + 1 ELSE Mixed
      BY <2>1 DEF Pages
    <2>3. /\ clean' = "no" /\ UNCHANGED deployment
      BY <1>1 DEF build_pages
    <2>4. PagingChosen'
      BY <2>2, <2>3, VersionFacts DEF PagingChosen
    <2>5. CASE written = Store
      <3>1. layout \in Layout /\ version + 1 \in Nat
        BY DeploymentFields, VersionTypes
      <3>2. /\ session'.pc \in Building /\ session'.ctl = version + 1
            /\ session'.roots = RootsOf(layout, version + 1)
            /\ session'.pc = "build_state" => layout = "plain"
        BY <2>1, <2>5, <3>1, BuildSessionFields
      <3>3. /\ session'.roots.layout = layout
            /\ session'.roots # NoRoots => session'.roots.version = version + 1
            /\ layout = "plain" => session'.roots = NoRoots
        BY <3>1, <3>2, RootsOfType
      <3>4. CleanBuild'
        BY <2>2, <2>3, <2>5, <3>2, <3>3 DEF CleanBuild
      <3>5. CleanSession'
        BY <3>2 DEF CleanSession, Building, Running
      <3> QED
        BY <2>3, <2>4, <3>4, <3>5 DEF CleanInv
    <2>6. CASE session' = Idle
      BY <2>3, <2>4, <2>6, IdleFields DEF CleanInv, CleanBuild, CleanSession, Building, Running
    <2> QED
      BY <2>1, <2>5, <2>6
  <1>2. CASE build_table
    <2>1. /\ session.pc = "build_table" /\ clean = "no"
          /\ UNCHANGED <<deployment, image, stateFile, authFile, clean>>
          /\ session' = Idle \/ session' = At(AfterTable(session.roots.layout))
      BY <1>0, <1>2 DEF build_table, CleanBuild, Building
    <2>2. CASE session' = Idle
      BY <1>0, <2>1, <2>2, IdleFields
         DEF CleanInv, PagingChosen, CleanBuild, CleanSession, Building, Running
    <2>3. CASE session' = At(AfterTable(session.roots.layout))
      <3>1. /\ session'.pc \in Building /\ session'.ctl = session.ctl
            /\ session'.roots = session.roots
            /\ session'.pc = "build_state" => session.roots.layout = "plain"
        BY <2>3, VersionTypes, AtFields DEF PCs, AfterTable, Building
      <3>2. session'.pc = "build_state" => session.roots = NoRoots
        BY <3>1, VersionTypes, BoundRootsFields
      <3>3. CleanBuild'
        BY <1>0, <2>1, <3>1, <3>2 DEF CleanBuild, Building
      <3> QED
        BY <1>0, <2>1, <3>1, <3>3 DEF CleanInv, PagingChosen, CleanSession, Building, Running
    <2> QED
      BY <2>1, <2>2, <2>3
  <1>3. CASE build_auth
    <2>1. /\ session.pc = "build_auth" /\ clean = "no"
          /\ UNCHANGED <<deployment, image, stateFile, clean>>
          /\ session' = At("build_state") /\ authFile'.seen = session.roots
      BY <1>0, <1>3, SavedFields DEF build_auth, CleanBuild, Building
    <2>2. /\ session'.pc = "build_state" /\ session'.ctl = session.ctl
          /\ session'.roots = session.roots
      BY <2>1, VersionTypes, AtFields DEF PCs, Building
    <2>3. CleanBuild'
      BY <1>0, <2>1, <2>2 DEF CleanBuild, Building
    <2> QED
      BY <1>0, <2>1, <2>2, <2>3 DEF CleanInv, PagingChosen, CleanSession, Building, Running
  <1>4. CASE build_state
    <2>1. /\ session.pc = "build_state" /\ session' = Idle
          /\ UNCHANGED <<deployment, image, authFile>>
          /\ stateFile'.seen = State(session.build, session.ctl,
                IF deployment.legacy THEN NoRoots ELSE session.roots)
          /\ clean' = IF session.roots = NoRoots THEN "plain" ELSE "auth"
      BY <1>4, SavedFields DEF build_state
    <2>2. /\ session.pc \in Building
          /\ session.roots.layout \in deployment.layouts \cup {"plain"}
          /\ session.roots # NoRoots => session.roots.version = session.ctl
          /\ \A s \in Store : /\ image[s].paging = PageBytes(session.roots.layout)
                              /\ image[s].version = session.ctl /\ image[s].kept = session.ctl
          /\ session.roots # NoRoots => authFile.seen = session.roots
      BY <1>0, <2>1 DEF CleanBuild, Building
    <2>3. /\ Readable(stateFile'.seen) /\ stateFile'.seen.version = session.ctl
          /\ deployment.legacy => stateFile'.seen.auth = NoRoots
          /\ ~deployment.legacy => stateFile'.seen.auth = session.roots
      BY <2>1 DEF State, Readable
    <2>4. \A s \in Store : image[s].paging = 2 => stateFile'.seen.auth.layout = "embedded"
      BY <2>2, <2>3, VersionFacts DEF FlagsKeepPages
    <2>5. session.roots # NoRoots =>
            /\ ChosenRoots(stateFile.seen)' = session.roots
            /\ session.roots \in StoreRoots
      BY <2>1, <2>2, <2>3, VersionTypes, BoundRootsFields DEF ChosenRoots
    <2>6. Reopens(clean)'
      <3>1. CASE session.roots = NoRoots
        BY <2>1, <2>2, <2>3, <2>4, <3>1 DEF Reopens
      <3>2. CASE session.roots # NoRoots
        BY <2>1, <2>2, <2>3, <2>4, <2>5, <3>2 DEF Reopens
      <3> QED
        BY <3>1, <3>2
    <2> QED
      BY <1>0, <2>1, <2>6, IdleFields
         DEF CleanInv, PagingChosen, CleanBuild, CleanSession, Building, Running
  <1> QED
    BY <1>1, <1>2, <1>3, <1>4 DEF Builds

LEMMA CleanOpens ==
  ASSUME SessionTypes, CleanInv, Opens, ~deployment.power, FlagsKeepPages
  PROVE  CleanInv'
PROOF
  <1>0. /\ PagingChosen /\ (clean # "no" => Reopens(clean))
    BY DEF CleanInv
  <1> PICK command \in Commands, auth \in BOOLEAN, save \in BOOLEAN, table \in Nat :
           Opened(command, auth, save, table)
    BY ReopenFields DEF Opens
  <1>1. /\ Readable(stateFile.seen) /\ UNCHANGED <<deployment, stateFile, authFile, clean>>
        /\ OpenedRoots(auth) \in BoundRoots
        /\ auth \/ deployment.forgets \/ stateFile.seen.auth = NoRoots
    BY OpenedFields
  <1>2. \A s \in Store : image'[s] = Resized(image[s], PageBytes(OpenedRoots(auth).layout))
    BY OpenedFields
  <1>3. \A s \in Store : image'[s].paging = image[s].paging
    BY <1>2, ResizedFields, VersionTypes, VersionFacts
  <1>4. PagingChosen'
    BY <1>0, <1>1, <1>3 DEF PagingChosen
  <1>5. ASSUME clean # "no", NEW s \in Store
        PROVE  /\ image'[s] = image[s]
               /\ image[s].paging = 2 => auth /\ OpenedRoots(auth).layout = "embedded"
    <2>1. image[s].paging = 2 => auth /\ OpenedRoots(auth).layout = "embedded"
      BY <1>0, <1>1, <1>5, NoRootsFields
         DEF Reopens, PagingChosen, FlagsKeepPages, OpenedRoots, ChosenRoots
    <2> QED
      BY <1>2, <2>1, ResizedFields, VersionTypes, VersionFacts
  <1>6. clean' # "no" => Reopens(clean)'
    BY <1>0, <1>1, <1>5 DEF Reopens, ChosenRoots
  <1>7. CASE session' = Idle
    BY <1>4, <1>6, <1>7, IdleFields DEF CleanInv, CleanBuild, CleanSession, Building, Running
  <1>8. CASE OpenedAs(auth, save, table)
    <2>1. /\ session'.pc = "running" /\ session'.auth = auth /\ session'.ctl = stateFile.seen.version
          /\ session'.roots = OpenedRoots(auth) /\ session'.served = FALSE /\ session'.was = clean
          /\ \A s \in Store : session'.view[s] = image'[s].version
      BY <1>8 DEF OpenedAs
    <2>2. ASSUME clean # "no"
          PROVE  SessionOfClean'
      <3>1. \A s \in Store :
              /\ session'.view[s] = session'.ctl
              /\ image'[s].paging = 2 => session'.auth /\ session'.roots.layout = "embedded"
        BY <1>0, <1>5, <2>1, <2>2 DEF Reopens
      <3>2. clean = Flags' => WillReopen'
        BY <1>0, <1>1, <1>3, <2>1, <2>2 DEF Flags, WillReopen, Reopens, OpenedRoots
      <3> QED
        BY <1>1, <2>1, <3>1, <3>2 DEF SessionOfClean
    <2>3. CleanSession'
      BY <1>1, <2>1, <2>2 DEF CleanSession, SessionOfClean
    <2> QED
      BY <1>4, <1>6, <2>1, <2>3 DEF CleanInv, CleanBuild, Building
  <1> QED
    BY <1>7, <1>8, OpenedFields

LEMMA CleanRuns ==
  ASSUME SessionTypes, FlagsInv, CleanInv, Runs, ~deployment.power, FlagsKeepPages
  PROVE  CleanInv'
PROOF
  <1>0. /\ PagingChosen /\ CleanSession /\ (clean # "no" => Reopens(clean))
    BY DEF CleanInv
  <1>1. /\ session.pc = "running" /\ UNCHANGED <<stateFile, authFile>>
    BY RunsKeep
  <1>2. deployment' = deployment
    BY DEF Runs, run_batch, bin_mismatch, direct_mismatch, WrongAnswer, batch_fails, Stop
  <1>3. \A s \in Store : image'[s].paging = image[s].paging
    BY ImagesAfter
  <1>4. PagingChosen'
    BY <1>0, <1>2, <1>3 DEF PagingChosen
  <1>5. CASE ~run_batch
    <2>1. clean' = "no" \/ (clean' = clean /\ image' = image)
      BY <1>5 DEF Runs, bin_mismatch, direct_mismatch, WrongAnswer, batch_fails
    <2>2. session' = Idle
      BY <1>5, RunsKeep
    <2>3. clean' # "no" => Reopens(clean)'
      BY <1>0, <1>1, <2>1 DEF Reopens, ChosenRoots
    <2> QED
      BY <1>4, <2>2, <2>3, IdleFields DEF CleanInv, CleanBuild, CleanSession, Building, Running
  <1>6. CASE run_batch
    <2>1. /\ clean' = "no" /\ session' = Served /\ \A s \in Store : Verified(s)
      BY <1>6 DEF run_batch
    <2>2. /\ session'.pc = "running" /\ session'.auth = session.auth /\ session'.ctl = version + 1
          /\ session'.served = TRUE /\ session'.was = session.was
          /\ session'.roots = RootsOf(session.roots.layout, version + 1)
          /\ \A s \in Store : session'.view[s] = Written(s, version + 1)
      BY <2>1, ServedFields
    <2>3. ASSUME session.was # "no"
          PROVE  SessionOfClean'
      <3>1. SessionOfClean
        BY <1>0, <1>1 DEF CleanSession, Running
      <3>2. session'.roots.layout = session.roots.layout
        BY <2>2, VersionTypes, RootsOfType
      <3>3. \A s \in Store :
              /\ session'.view[s] = session'.ctl
              /\ image'[s].paging = 2 => session'.auth /\ session'.roots.layout = "embedded"
        BY <1>3, <2>2, <2>3, <3>1, <3>2 DEF SessionOfClean, Written
      <3>4. session.auth => session.roots # NoRoots
        BY <1>1 DEF FlagsInv, Running
      <3>5. ~session.auth => session.roots = NoRoots
        BY <1>1 DEF FlagsInv, Running
      <3>6. CASE session.auth
        <4>1. session'.roots.version = version + 1
          BY <2>2, <3>4, <3>6, VersionTypes, BoundRootsFields, RootsOfType
        <4>2. \A s \in Store : image'[s].paging = PageBytes(session'.roots.layout)
          BY <1>3, <2>1, <3>2, <3>4, <3>6 DEF Verified
        <4> QED
          BY <2>2, <3>3, <3>6, <4>1, <4>2 DEF SessionOfClean, Unsaved, WillReopen
      <3>7. CASE ~session.auth
        <4>1. session'.roots = NoRoots
          BY <2>2, <3>5, <3>7, NoRootsFields DEF RootsOf
        <4> QED
          BY <2>2, <3>3, <3>7, <4>1 DEF SessionOfClean, Unsaved, WillReopen
      <3> QED
        BY <3>6, <3>7
    <2>4. CleanSession'
      BY <2>1, <2>2, <2>3 DEF CleanSession, SessionOfClean
    <2> QED
      BY <1>4, <2>1, <2>2, <2>4 DEF CleanInv, CleanBuild, Building
  <1> QED
    BY <1>5, <1>6

\* A command that ends well leaves a clean directory as it was, or as it saved it.
LEMMA CleanLeaves ==
  ASSUME SessionTypes, FlagsInv, FlushedInv, FlushedKept, CleanInv, Leaves, ~deployment.power,
         FlagsKeepPages
  PROVE  CleanInv'
PROOF
  <1>0. /\ PagingChosen /\ CleanSession /\ CleanBuild /\ (clean # "no" => Reopens(clean))
    BY DEF CleanInv
  <1>1. \A s \in Store : image'[s].paging = image[s].paging
    BY ImagesAfter
  <1>2. deployment' = deployment
    BY DEF Leaves, finish_ops, flush, flush_fails, save_state, save_auth, stop, Stop
  <1>3. PagingChosen'
    BY <1>0, <1>1, <1>2 DEF PagingChosen
  <1>4. ASSUME session' = Idle, clean' # "no" => Reopens(clean)'
        PROVE  CleanInv'
    BY <1>3, <1>4, IdleFields DEF CleanInv, CleanBuild, CleanSession, Building, Running
  \* What is true of a session of a directory that is still clean.
  <1>5. ASSUME session.pc \in Running, clean # "no", NEW s \in Store
        PROVE  /\ image[s].version = session.view[s] /\ image[s].kept = session.view[s]
               /\ ~session.served /\ session.pc # "save_auth" /\ session.was # "no"
    <2>1. session.was = clean /\ ~session.served /\ session.pc # "save_auth"
      BY <1>0, <1>5 DEF CleanSession
    <2>2. session.view[s] = session.ctl /\ session.ctl = stateFile.seen.version
      BY <1>0, <1>5, <2>1 DEF CleanSession, SessionOfClean, Unsaved
    <2> QED
      BY <1>0, <1>5, <2>1, <2>2 DEF Reopens
  <1>6. ASSUME session.pc \in Running, UNCHANGED <<stateFile, authFile, clean>>,
               image' = image \/ flush
        PROVE  clean' # "no" => Reopens(clean)'
    <2> SUFFICES ASSUME clean # "no" PROVE Reopens(clean)'
      BY <1>6
    <2>1. ASSUME NEW s \in Store
          PROVE  /\ image'[s].version = image[s].version
                 /\ image'[s].kept = image[s].kept
      <3>1. \/ image'[s] = image[s]
            \/ image'[s] = Pages(image[s].paging, session.view[s], session.view[s])
        BY <1>6 DEF flush
      <3> QED
        BY <1>5, <1>6, <3>1 DEF Pages
    <2> QED
      BY <1>0, <1>1, <1>6, <2>1 DEF Reopens, ChosenRoots
  \* The session goes on.
  <1>7. ASSUME session.pc \in Running, NEW pc \in Running, session' = At(pc),
               clean' # "no" => Reopens(clean)', clean' \in {"no", clean},
               pc = "save_auth" => clean' = "no" /\ stateFile'.seen = snapshot,
               pc # "save_auth" => session.pc # "save_auth" /\ UNCHANGED <<stateFile, clean>>
        PROVE  CleanInv'
    <2>1. /\ session'.pc = pc /\ session'.ctl = session.ctl /\ session'.roots = session.roots
          /\ session'.view = session.view /\ session'.auth = session.auth
          /\ session'.was = session.was /\ session'.served = session.served
          /\ session'.build = session.build
      BY <1>7, VersionTypes, AtFields DEF PCs
    <2>2. SessionOfClean
      BY <1>0, <1>7 DEF CleanSession
    <2>3. WillReopen => WillReopen'
      BY <1>1, <2>1 DEF WillReopen
    <2>4. Flags' = Flags /\ snapshot' = snapshot
      BY <2>1 DEF Flags, snapshot
    <2>5. Unsaved' => Unsaved /\ UNCHANGED <<stateFile, clean>>
      BY <1>7, <2>1 DEF Unsaved
    <2>6. SessionOfClean'
      BY <1>1, <2>1, <2>2, <2>3, <2>4, <2>5 DEF SessionOfClean
    <2>7. CleanSession'
      BY <1>0, <1>7, <2>1, <2>4, <2>6 DEF CleanSession
    <2> QED
      BY <1>3, <1>7, <2>1, <2>7 DEF CleanInv, CleanBuild, Building, Running
  \* A stop.
  <1>8. CASE session' = Idle /\ UNCHANGED <<stateFile, authFile, clean>> /\ (image' = image \/ flush_fails)
    <2>1. CASE image' = image
      BY <1>0, <1>4, <1>8, <2>1 DEF Reopens, ChosenRoots
    <2>2. CASE flush_fails
      <3>1. /\ session.pc \in Running /\ FlushedStore \in Store
            /\ image[FlushedStore].kept # session.view[FlushedStore]
        BY <2>2 DEF flush_fails, Running, FlushedStore, Store
      <3>2. clean' = "no"
        BY <1>5, <1>8, <3>1
      <3> QED
        BY <1>4, <1>8, <3>2
    <2> QED
      BY <1>8, <2>1, <2>2
  <1>9. CASE session.pc \in {"running", "flush_meta", "flush_payload"} /\ Advance(session.pc)
             /\ UNCHANGED <<stateFile, authFile>> /\ (image' = image \/ flush)
    <2>1. session.pc \in Running
      BY <1>9 DEF Running
    <2>2. \/ /\ \E pc \in {"flush_meta", "flush_payload", "save_state"} : session' = At(pc)
             /\ clean' = clean
          \/ session' = Idle /\ clean' \in {"no", clean}
      BY <1>9, <2>1, AdvanceSteps DEF Moves, Ends, CleanAfter
    <2>3. clean' = clean => (clean' # "no" => Reopens(clean)')
      BY <1>6, <1>9, <2>1
    <2> QED
      BY <1>4, <1>7, <1>9, <2>1, <2>2, <2>3 DEF Running
  \* What a save leaves: state, pages and roots of the controller's version.
  <1>10. ASSUME session.pc \in {"save_state", "save_auth"}, image' = image, clean' = Flags,
                session.was = Flags \/ (session.was # "no" /\ session.served),
                stateFile'.seen = State(session.build, session.ctl, session.roots)
         PROVE  Reopens(clean)'
    <2>1. session.pc \in Running /\ session.was # "no"
      BY <1>10 DEF Running, Flags
    <2>2. /\ \A s \in Store :
               /\ session.view[s] = session.ctl
               /\ image[s].paging = 2 => session.auth /\ session.roots.layout = "embedded"
          /\ WillReopen
      BY <1>0, <1>10, <2>1 DEF CleanSession, SessionOfClean
    <2>3. \A s \in Store : image[s].version = session.ctl /\ image[s].kept = session.ctl
      <3>1. /\ image["meta"].version = session.view["meta"] /\ image["meta"].kept = session.view["meta"]
            /\ image["payload"].version = session.view["payload"]
            /\ image["payload"].kept = session.view["payload"]
        BY <1>10 DEF FlushedInv, FlushedKept
      <3> QED
        BY <2>2, <3>1 DEF Store
    <2>4. /\ Readable(stateFile'.seen) /\ stateFile'.seen.version = session.ctl
          /\ stateFile'.seen.auth = session.roots
      BY <1>10, VersionTypes, StateFields
    <2>5. CASE session.auth
      <3>1. session.roots \in StoreRoots /\ session.roots # NoRoots
        BY <2>1, <2>5, VersionTypes, BoundRootsFields DEF FlagsInv
      <3>2. ChosenRoots(stateFile.seen)' = session.roots
        BY <2>4, <3>1 DEF ChosenRoots
      <3>3. clean' = "auth"
        BY <1>10, <2>5 DEF Flags
      <3> QED
        BY <1>10, <2>2, <2>3, <2>4, <2>5, <3>1, <3>2, <3>3 DEF Reopens, WillReopen
    <2>6. CASE ~session.auth
      <3>1. session.roots = NoRoots /\ clean' = "plain"
        BY <1>10, <2>2, <2>6 DEF WillReopen, Flags
      <3> QED
        BY <1>10, <2>2, <2>3, <2>4, <2>6, <3>1 DEF Reopens
    <2> QED
      BY <2>5, <2>6
  <1>11. CASE session.pc = "save_state" /\ Advance(session.pc) /\ image' = image
              /\ stateFile' = save_atomic(stateFile, snapshot)
    <2>1. stateFile'.seen = State(session.build, session.ctl, session.roots)
          /\ stateFile'.seen = snapshot
      BY <1>11, SavedFields DEF snapshot
    <2>2. \/ session' = At("save_auth") /\ clean' = "no"
          \/ session' = Idle /\ clean' = CleanAfter
      BY <1>11, AdvanceSteps DEF Moves, Ends, Running
    <2>3. CASE session' = At("save_auth") /\ clean' = "no"
      BY <1>7, <1>11, <2>1, <2>3 DEF Running
    <2>4. CASE session' = Idle /\ clean' = CleanAfter
      <3>1. session.save
        BY <1>11 DEF FlagsInv, Running
      <3>2. clean' # "no" => Reopens(clean)'
        BY <1>10, <1>11, <2>1, <2>4, <3>1 DEF CleanAfter
      <3> QED
        BY <1>4, <2>4, <3>2
    <2> QED
      BY <2>2, <2>3, <2>4
  <1>12. CASE session.pc = "save_auth" /\ Advance(session.pc) /\ image' = image /\ UNCHANGED stateFile
    <2>1. stateFile'.seen = State(session.build, session.ctl, session.roots) /\ session.save
      BY <1>0, <1>12 DEF CleanSession, FlagsInv, Running, snapshot
    <2>2. session' = Idle /\ clean' = CleanAfter
      BY <1>12, AdvanceSteps DEF Moves, Ends, Running
    <2>3. clean' # "no" => Reopens(clean)'
      BY <1>10, <1>12, <2>1, <2>2 DEF CleanAfter
    <2> QED
      BY <1>4, <2>2, <2>3
  <1> QED
    BY <1>8, <1>9, <1>11, <1>12, LeavesSteps DEF Running

LEMMA CleanStep ==
  ASSUME SessionTypes, FlagsInv, FlushedInv, FlushedKept, CleanInv, [Next]_vars
  PROVE  CleanInv'
PROOF
  <1> SUFFICES ASSUME ~deployment.power, FlagsKeepPages PROVE CleanInv'
    BY DeploymentKept DEF CleanInv, FlagsKeepPages
  <1>1. CASE UNCHANGED vars
    BY <1>1 DEF vars, CleanInv, PagingChosen, CleanBuild, CleanSession, SessionOfClean, Unsaved,
       WillReopen, Flags, snapshot, Reopens, ChosenRoots, FlagsKeepPages
  <1>2. CASE Fails
    BY <1>2 DEF Fails, writeback, power_loss
  <1>3. CASE Refuses
    <2>1. PagingChosen'
      BY <1>3, RefusesFields DEF CleanInv, PagingChosen
    <2> QED
      BY <1>3, <2>1, RefusesFields, IdleFields
         DEF CleanInv, CleanBuild, CleanSession, Building, Running
  <1> QED
    BY <1>1, <1>2, <1>3, KindsOfSteps, CleanBuilds, CleanOpens, CleanRuns, CleanLeaves

-----------------------------------------------------------------------------
(* The theorems.                                                            *)

LEMMA SessionsInvInit == Init => SessionsInv
PROOF
  <1> SUFFICES ASSUME Init PROVE SessionsInv
    OBVIOUS
  <1>1. SessionTypes
    BY SessionTypesInit
  <1>2. /\ session = Idle /\ stateFile.seen = Absent /\ stateFile.kept = Absent
        /\ authFile.seen = Absent /\ version = 0 /\ clean = "no"
        /\ \A s \in Store : image[s].paging = 1
    BY DEF Init, Pages
  <1>3. ~Readable(Absent)
    BY DEF Readable, Absent
  <1>4. FlagsInv /\ BoundInv /\ BoundedInv /\ FlushedInv /\ FlushedKept
    BY <1>2, <1>3, IdleFields DEF FlagsInv, BoundInv, BoundedInv, FlushedInv, FlushedKept, Running
  <1>5. OnceInv /\ TableInv
    BY <1>2, <1>3, IdleFields
       DEF OnceInv, PagesNotOlder, FirstBuild, SessionNotOlder, TableInv, TableOrNewer, TableBuild,
           SessionTable, Building, Running
  <1>6. CleanInv
    BY <1>2, IdleFields DEF CleanInv, PagingChosen, CleanBuild, CleanSession, Building, Running
  <1> QED
    BY <1>1, <1>4, <1>5, <1>6 DEF SessionsInv

LEMMA SessionsInvStep ==
  ASSUME SessionsInv, [Next]_vars
  PROVE  SessionsInv'
BY SessionTypesStep, FlagsStep, BoundStep, BoundedStep, FlushedStep, OnceStep, TableStep, CleanStep
   DEF SessionsInv

\* The version of the pages of an authenticated session whose roots verify.
LEMMA InvReadsMatchState ==
  ASSUME SessionsInv
  PROVE  ReadsMatchState
PROOF
  <1> SUFFICES ASSUME RootsAreBound \/ BuiltOnce, session.pc = "running", RootsVerify, NEW s \in Store
               PROVE  session.view[s] = session.ctl
    BY DEF ReadsMatchState
  <1>0. SessionTypes
    BY DEF SessionsInv
  <1>1. session.roots # NoRoots
    BY DEF SessionsInv, FlagsInv, RootsVerify, Running
  <1>2. session.view[s] = session.roots.version /\ session.view[s] # Mixed
    BY <1>1 DEF RootsVerify, Verified
  <1>3. CASE RootsAreBound
    BY <1>2, <1>3 DEF SessionsInv, BoundInv, Binds
  <1>4. CASE BuiltOnce
    <2>1. session.roots.version <= session.ctl /\ AtLeast(session.view[s], session.ctl)
      BY <1>4 DEF SessionsInv, OnceInv, SessionNotOlder, Running
    <2>2. session.ctl \in Nat /\ session.view[s] \in Nat
      BY <1>0, <1>2, VersionTypes DEF Version
    <2> QED
      BY <1>2, <2>1, <2>2 DEF AtLeast
  <1> QED
    BY <1>3, <1>4

LEMMA InvReadsMatchTable ==
  ASSUME SessionsInv
  PROVE  ReadsMatchTable
PROOF
  <1> SUFFICES ASSUME ~deployment.power, RootsAreBound \/ BuiltOnce, session.pc = "running", RootsVerify
               PROVE  session.table = session.build
    BY DEF ReadsMatchTable
  <1>1. \A s \in Store : session.view[s] = session.ctl
    BY InvReadsMatchState DEF ReadsMatchState
  <1>2. \/ session.table = session.build
        \/ \A s \in Store : Above(session.view[s], session.ctl)
    BY DEF SessionsInv, TableInv, SessionTable, Running
  <1>3. session.ctl \in Nat
    BY VersionTypes DEF SessionsInv
  <1> QED
    BY <1>1, <1>2, <1>3, VersionFacts DEF Above

LEMMA InvSavedImagesReopen ==
  ASSUME SessionsInv
  PROVE  SavedImagesReopen
PROOF
  <1> SUFFICES ASSUME ~deployment.power, FlagsKeepPages, clean # "no"
               PROVE  SavedImagesReopen
    BY DEF SavedImagesReopen
  <1>1. Reopens(clean)
    BY DEF SessionsInv, CleanInv
  <1>2. \A r \in StoreRoots : Readable(r)
    BY DEF StoreRoots, Readable
  <1> QED
    BY <1>1, <1>2 DEF Reopens, SavedImagesReopen

LEMMA SessionsInvariant == Spec => []SessionsInv
PROOF
  <1>1. SessionsInv /\ [Next]_vars => SessionsInv'
    BY SessionsInvStep
  <1> QED
    BY <1>1, SessionsInvInit, PTL DEF Spec

\* In every deployment whose states bind roots, or whose directory was built
\* once on a machine that keeps its power, images that pass the check of the
\* roots of an authenticated session are of its controller's version
\* (from_state, open_circuit_file_stores_for_reopen), for any number of builds,
\* sessions, crashes and, with sealed states, losses of power.
THEOREM AuthenticatedReadsMatch == Spec => []ReadsMatchState
BY SessionsInvariant, InvReadsMatchState, PTL

\* In the same deployments without loss of power, a direct image that passes
\* the check is read with the description of its own table (bench_direct_table).
THEOREM TableMatchesImage == Spec => []ReadsMatchTable
BY SessionsInvariant, InvReadsMatchTable, PTL

\* Directories whose commands all returned Ok and saved can be reopened with
\* the flags of the last one, unless power is lost or flags that do not fit
\* embedded pages cut them off (bench_circuit_table, finish_direct_bench_table).
THEOREM CleanExitReopens == Spec => []SavedImagesReopen
BY SessionsInvariant, InvSavedImagesReopen, PTL
=============================================================================
