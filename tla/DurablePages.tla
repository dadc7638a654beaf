---------------------------- MODULE DurablePages ----------------------------
(***************************************************************************)
(* What a page store promises its caller: an array of pages in which a      *)
(* successful write replaces pages in the order of the call, a failed one   *)
(* may have reached any of its pages, and a flush fixes what outlives the   *)
(* process and a loss of power.                                             *)
(***************************************************************************)
EXTENDS Naturals, Sequences

CONSTANTS
  Values,     \* what a caller writes to a page
  Zero,       \* the contents of a page nobody has written
  Garbled     \* a page that is neither an old nor a new version

VARIABLES
  authentic,  \* TRUE if the store recognises garbled and blank pages
  mem,        \* the array the caller sees
  survivors,  \* per page, what it may hold after the process or power is lost
  reply       \* result of the last call

\* Calls may also name a page that the store does not have.
Page     == DOMAIN mem
Contents == Values \cup {Zero, Garbled}

WriteOk      == [result |-> "ok", out |-> <<>>]
Failed       == [result |-> "err", out |-> <<>>]
ReadOk(out)  == [result |-> "ok", out |-> out]

Readable(content) == authentic => content \in Values \cup {Zero}

\* The values a call writes to page p, and the last of them.
Written(indices, pages, p) == {pages[k] : k \in {j \in DOMAIN indices : indices[j] = p}}

LastWritten(indices, pages, p) ==
  pages[CHOOSE k \in DOMAIN indices :
          indices[k] = p /\ \A j \in DOMAIN indices : indices[j] = p => j <= k]

\* Reads of several pages answer in the order of the call.
Read(indices) ==
  /\ \/ /\ \A k \in DOMAIN indices : indices[k] \in Page /\ Readable(mem[indices[k]])
        /\ reply' = ReadOk([k \in DOMAIN indices |-> mem[indices[k]]])
     \/ reply' = Failed
  /\ UNCHANGED <<mem, survivors>>

ReadPaths(paths) ==
  /\ \/ /\ \A i \in DOMAIN paths : \A k \in DOMAIN paths[i] :
             paths[i][k] \in Page /\ Readable(mem[paths[i][k]])
        /\ reply' = ReadOk([i \in DOMAIN paths |->
                              [k \in DOMAIN paths[i] |-> mem[paths[i][k]]]])
     \/ reply' = Failed
  /\ UNCHANGED <<mem, survivors>>

\* Until the next flush a written page may fall back to what it may have held
\* before, or tear.
Write(indices, pages) ==
  /\ \A p \in Page :
       survivors'[p] \subseteq
         survivors[p] \cup (IF Written(indices, pages, p) = {} THEN {}
                            ELSE Written(indices, pages, p) \cup {Garbled})
  /\ \/ /\ \A k \in DOMAIN indices : indices[k] \in Page
        /\ mem' = [p \in Page |-> IF Written(indices, pages, p) = {} THEN mem[p]
                                  ELSE LastWritten(indices, pages, p)]
        /\ reply' = WriteOk
     \/ /\ mem' \in [Page -> Contents]
        /\ \A p \in Page :
             mem'[p] \in {mem[p]} \cup
                 (IF Written(indices, pages, p) = {} THEN {}
                  ELSE Written(indices, pages, p) \cup {Garbled})
        /\ reply' = Failed

Flush ==
  /\ mem' = mem
  /\ \/ survivors' = [p \in Page |-> {mem[p]}] /\ reply' = WriteOk
     \/ survivors' = survivors /\ reply' = Failed

\* The process ends or the machine loses power.
Crash ==
  /\ mem' \in [Page -> Contents]
  /\ \A p \in Page : mem'[p] \in survivors[p] /\ survivors'[p] \subseteq survivors[p]
  /\ reply' = Failed

\* A store that recognises garbled pages sees a page that belongs elsewhere
\* as one.
Misplace(p) ==
  /\ authentic
  /\ mem' = [mem EXCEPT ![p] = Garbled]
  /\ survivors' = [survivors EXCEPT ![p] = {Garbled}]
  /\ reply' = Failed

Open == mem' = mem /\ survivors' = survivors /\ reply' \in {WriteOk, Failed}
=============================================================================
