----------------------------- MODULE SyncProofs -----------------------------
(***************************************************************************)
(* What holds of the synchronisation for any number of devices and         *)
(* records, any size of a page and any number of writes, deletions and     *)
(* failures.                                                               *)
(***************************************************************************)
EXTENDS Sync, TLAPS

USE SyncAssumption

\* The server knows every version it holds, forgets none of its rows, and has no
\* row without the one it refers to.
ServerInv ==
  /\ clock \in Times /\ writes \in 0 .. MaxWrites
  /\ DOMAIN server \subseteq Records
  /\ \A r \in Records : /\ committed[r] \subseteq 1 .. writes
                        /\ committed[r] # {} => r \in DOMAIN server
  /\ \A r \in DOMAIN server :
       /\ server[r] \in ServerRows /\ server[r].version \in committed[r]
       /\ Parent[r] # NoRecord => Parent[r] \in DOMAIN server

\* A device has no row without the one it refers to, unless the server had it
\* and deleted it; what it takes for synced the server has had.
LocalInv(d) ==
  /\ DOMAIN local[d] \subseteq Records
  /\ \A r \in DOMAIN local[d] :
       /\ local[d][r] \in LocalRows /\ local[d][r].version <= writes
       /\ Parent[r] # NoRecord => Parent[r] \in DOMAIN local[d] \cup DOMAIN server
       /\ local[d][r].status = "synced" => local[d][r].version \in committed[r]

PulledInv(d) ==
  /\ DOMAIN pulled[d] \subseteq DOMAIN server
  /\ \A r \in DOMAIN pulled[d] : /\ pulled[d][r].row \in ServerRows
                                 /\ pulled[d][r].row.version \in committed[r]

\* Nothing on its way to the server will be skipped for want of a parent; the
\* request under way is the batch's, and a 200 says that the server has it.
RequestInv(d) ==
  \A r \in DOMAIN request[d].rows :
    /\ r \in Records /\ request[d].rows[r] \in LocalRows
    /\ request[d].rows[r].version <= writes
    /\ Parent[r] # NoRecord =>
         Parent[r] \in DOMAIN request[d].rows \cup DOMAIN server

AnswerInv(d) ==
  /\ pc[d] = "push" /\ request[d].sent => request[d].rows = batch[d]
  /\ answer[d] # "none" => pc[d] = "push"
  /\ answer[d] = "200" =>
       \A r \in DOMAIN batch[d] : /\ r \in Records
                                 /\ batch[d][r].version \in committed[r]

PointInv(d) ==
  /\ cursor[d] \in 0 .. clock /\ stamp[d] \in 0 .. clock
  /\ pc[d] \in {"idle", "pull", "save", "merge", "collect", "push"}
  /\ answer[d] \in {"none", "200", "404", "409"}

DeviceInv(d) ==
  LocalInv(d) /\ PulledInv(d) /\ RequestInv(d) /\ AnswerInv(d) /\ PointInv(d)

Shape ==
  /\ DOMAIN local = Devices /\ DOMAIN cursor = Devices /\ DOMAIN pc = Devices
  /\ DOMAIN stamp = Devices /\ DOMAIN pulled = Devices /\ DOMAIN batch = Devices
  /\ DOMAIN request = Devices /\ DOMAIN answer = Devices

IInv == ServerInv /\ Shape /\ \A d \in Devices : DeviceInv(d)
-----------------------------------------------------------------------------
(* Steps that do not concern a part of a device.                           *)

Grows ==
  /\ writes \in Nat /\ writes' \in Nat /\ writes <= writes'
  /\ clock \in Nat /\ clock' \in Nat /\ clock <= clock'
  /\ DOMAIN server \subseteq Records /\ DOMAIN server \subseteq DOMAIN server'
  /\ \A r \in Records : committed[r] \subseteq committed'[r]

LEMMA LocalKept ==
  ASSUME NEW d \in Devices, Grows, LocalInv(d), local'[d] = local[d]
  PROVE  LocalInv(d)'
<1>1. ASSUME NEW r \in DOMAIN local[d]
      PROVE  /\ local[d][r].version <= writes'
             /\ Parent[r] # NoRecord => Parent[r] \in DOMAIN local[d] \cup DOMAIN server'
             /\ local[d][r].status = "synced" => local[d][r].version \in committed'[r]
  <2>1. local[d][r].version \in Nat
    BY DEF LocalInv, LocalRows, Versions
  <2> QED
    BY <2>1 DEF LocalInv, Grows
<1> QED
  BY <1>1 DEF LocalInv

LEMMA PulledKept ==
  ASSUME NEW d \in Devices, Grows, PulledInv(d), pulled'[d] = pulled[d]
  PROVE  PulledInv(d)'
BY DEF Grows, PulledInv

LEMMA RequestKept ==
  ASSUME NEW d \in Devices, Grows, RequestInv(d), request'[d] = request[d]
  PROVE  RequestInv(d)'
<1>1. ASSUME NEW r \in DOMAIN request[d].rows
      PROVE  /\ request[d].rows[r].version <= writes'
             /\ Parent[r] # NoRecord =>
                  Parent[r] \in DOMAIN request[d].rows \cup DOMAIN server'
  <2>1. request[d].rows[r].version \in Nat
    BY DEF RequestInv, LocalRows, Versions
  <2> QED
    BY <2>1 DEF RequestInv, Grows
<1> QED
  BY <1>1 DEF RequestInv

LEMMA AnswerKept ==
  ASSUME NEW d \in Devices, Grows, AnswerInv(d), pc'[d] = pc[d],
         answer'[d] = answer[d], request'[d] = request[d], batch'[d] = batch[d]
  PROVE  AnswerInv(d)'
BY DEF Grows, AnswerInv

Same(d) ==
  /\ local'[d] = local[d] /\ cursor'[d] = cursor[d] /\ pc'[d] = pc[d]
  /\ stamp'[d] = stamp[d] /\ pulled'[d] = pulled[d] /\ batch'[d] = batch[d]
  /\ request'[d] = request[d] /\ answer'[d] = answer[d]

\* What happens elsewhere leaves a device as it should be.
LEMMA DeviceKept ==
  ASSUME NEW d \in Devices, Grows, DeviceInv(d), Same(d)
  PROVE  DeviceInv(d)'
<1>1. PointInv(d)'
  BY DEF DeviceInv, PointInv, Same, Grows
<1> QED
  BY <1>1, LocalKept, PulledKept, RequestKept, AnswerKept DEF DeviceInv, Same

\* A step of one device.
LEMMA OneDevice ==
  ASSUME IInv, Grows, ServerInv', Shape', NEW e \in Devices, DeviceInv(e)',
         \A d \in Devices \ {e} : Same(d)
  PROVE  IInv'
<1>1. ASSUME NEW d \in Devices \ {e} PROVE DeviceInv(d)'
  BY <1>1, DeviceKept DEF IInv
<1> QED
  BY <1>1 DEF IInv

\* What only the device does leaves the server as it is.
LEMMA ServerKept ==
  ASSUME ServerInv, SyncOnly
  PROVE  Grows /\ ServerInv'
<1> USE DEF SyncOnly, boundVars
<1>1. Grows
  BY DEF ServerInv, Grows, Times
<1>2. ServerInv'
  BY DEF ServerInv
<1> QED
  BY <1>1, <1>2

LEMMA OverlayFacts ==
  ASSUME NEW f, NEW g
  PROVE  /\ DOMAIN Overlay(f, g) = DOMAIN f \cup DOMAIN g
         /\ \A x \in DOMAIN g : Overlay(f, g)[x] = g[x]
         /\ \A x \in DOMAIN f \ DOMAIN g : Overlay(f, g)[x] = f[x]
BY DEF Overlay
-----------------------------------------------------------------------------
(* One lemma for each action.                                              *)

LEMMA InitEstablishes == Init => IInv
<1> SUFFICES ASSUME Init PROVE IInv
  OBVIOUS
<1> USE DEF Init
<1>1. ServerInv /\ Shape
  BY DEF ServerInv, Shape, Times
<1>2. ASSUME NEW d \in Devices PROVE DeviceInv(d)
  BY DEF DeviceInv, LocalInv, PulledInv, RequestInv, AnswerInv, PointInv, NoRequest
<1> QED
  BY <1>1, <1>2 DEF IInv

LEMMA TickKeeps == ASSUME IInv, Tick PROVE IInv'
<1> USE DEF Tick, syncVars, boundVars, historyVars
<1>1. Grows
  BY DEF IInv, ServerInv, Grows, Times
<1>2. ServerInv'
  BY DEF IInv, ServerInv, Times
<1>3. Shape'
  BY DEF IInv, Shape
<1>4. ASSUME NEW d \in Devices PROVE DeviceInv(d)'
  <2>1. Same(d)
    BY DEF Same
  <2> QED
    BY <1>1, <2>1, DeviceKept DEF IInv
<1> QED
  BY <1>2, <1>3, <1>4 DEF IInv

\* A write of the user: the server's numbers grow, one row is as it should be.
LEMMA WriteKeeps ==
  ASSUME IInv, NEW e \in Devices, NEW r \in Records, UserOnly,
         writes < MaxWrites, writes' = writes + 1,
         DOMAIN local' = Devices,
         \A d \in Devices \ {e} : local'[d] = local[d],
         DOMAIN local'[e] = DOMAIN local[e] \cup {r},
         \A q \in DOMAIN local[e] \ {r} : local'[e][q] = local[e][q],
         local'[e][r] \in LocalRows, local'[e][r].version = writes + 1,
         local'[e][r].status # "synced",
         Parent[r] # NoRecord => Parent[r] \in DOMAIN local[e] \cup DOMAIN server
  PROVE  IInv'
<1> USE DEF UserOnly, syncVars
<1>1. Grows
  BY DEF IInv, ServerInv, Grows, Times
<1>2. ServerInv'
  BY DEF IInv, ServerInv, Times
<1>3. Shape'
  BY DEF IInv, Shape
<1>4. ASSUME NEW d \in Devices \ {e} PROVE Same(d)
  BY <1>4 DEF Same
<1>5. LocalInv(e)'
  <2>1. LocalInv(e) /\ writes \in Nat
    BY DEF IInv, DeviceInv, ServerInv
  <2>2. ASSUME NEW q \in DOMAIN local[e] \ {r}
        PROVE  /\ local'[e][q] \in LocalRows /\ local'[e][q].version <= writes'
               /\ Parent[q] # NoRecord =>
                    Parent[q] \in DOMAIN local'[e] \cup DOMAIN server'
               /\ local'[e][q].status = "synced" =>
                    local'[e][q].version \in committed'[q]
    <3>1. local[e][q].version \in Nat
      BY <2>1, <2>2 DEF LocalInv, LocalRows, Versions
    <3> QED
      BY <2>1, <2>2, <3>1 DEF LocalInv
  <2>3. local'[e][r].version <= writes'
    BY <2>1
  <2> QED
    BY <2>1, <2>2, <2>3 DEF LocalInv
<1>6. PointInv(e)'
  BY <1>1 DEF IInv, DeviceInv, PointInv
<1>7. DeviceInv(e)'
  BY <1>1, <1>5, <1>6, PulledKept, RequestKept, AnswerKept DEF IInv, DeviceInv
<1> QED
  BY <1>1, <1>2, <1>3, <1>4, <1>7, OneDevice

LEMMA CreateKeeps ==
  ASSUME IInv, NEW e \in Devices, NEW r \in Records, NEW held \in BOOLEAN,
         LocalCreates(e, r, held)
  PROVE  IInv'
<1> DEFINE row == [status |-> "created", version |-> writes + 1,
                   created |-> clock, updated |-> clock, held |-> held]
           one == [x \in {r} |-> row]
<1>1. DOMAIN local = Devices /\ writes \in Nat /\ clock \in Times
  BY DEF IInv, Shape, ServerInv
<1>2. local' = [local EXCEPT ![e] = Overlay(local[e], one)]
  BY DEF LocalCreates
<1>3. local'[e] = Overlay(local[e], one) /\ DOMAIN local' = Devices
  BY <1>1, <1>2
<1>a. DOMAIN one = {r} /\ one[r] = row
  OBVIOUS
<1> HIDE DEF one
<1>b. /\ DOMAIN Overlay(local[e], one) = DOMAIN local[e] \cup DOMAIN one
      /\ \A x \in DOMAIN one : Overlay(local[e], one)[x] = one[x]
      /\ \A x \in DOMAIN local[e] \ DOMAIN one :
           Overlay(local[e], one)[x] = local[e][x]
  BY OverlayFacts
<1>4. DOMAIN local'[e] = DOMAIN local[e] \cup {r} /\ local'[e][r] = row
  BY <1>3, <1>a, <1>b
<1>5. \A q \in DOMAIN local[e] \ {r} : local'[e][q] = local[e][q]
  BY <1>3, <1>a, <1>b
<1>6. row \in LocalRows
  BY <1>1 DEF LocalRows, Versions, LocalCreates
<1>7. \A d \in Devices \ {e} : local'[d] = local[d]
  BY <1>1, <1>2
<1> QED
  BY <1>3, <1>4, <1>5, <1>6, <1>7, WriteKeeps DEF LocalCreates

LEMMA UpdateKeeps ==
  ASSUME IInv, NEW e \in Devices, NEW r \in Records, LocalUpdates(e, r)
  PROVE  IInv'
<1> DEFINE old == local[e][r]
           row == [old EXCEPT !.status = IF old.status = "created" THEN "created"
                                                                  ELSE "updated",
                              !.version = writes + 1, !.updated = clock,
                              !.held = FALSE]
<1>1. /\ DOMAIN local = Devices /\ writes \in Nat /\ clock \in Times
      /\ r \in DOMAIN local[e] /\ LocalInv(e)
  BY DEF IInv, Shape, ServerInv, DeviceInv, LocalUpdates
<1>4. local'[e] = [local[e] EXCEPT ![r] = row] /\ DOMAIN local' = Devices
  BY <1>1 DEF LocalUpdates
<1>5. DOMAIN local'[e] = DOMAIN local[e] \cup {r} /\ local'[e][r] = row
  BY <1>1, <1>4
<1>6. \A q \in DOMAIN local[e] \ {r} : local'[e][q] = local[e][q]
  BY <1>4
<1>7. row \in LocalRows /\ row.version = writes + 1 /\ row.status # "synced"
  <2>1. old \in LocalRows
    BY <1>1 DEF LocalInv
  <2>2. writes + 1 \in Versions
    BY <1>1 DEF LocalUpdates, Versions
  <2> QED
    BY <1>1, <2>1, <2>2 DEF LocalRows
<1>8. \A d \in Devices \ {e} : local'[d] = local[d]
  BY <1>1 DEF LocalUpdates
<1>9. Parent[r] # NoRecord => Parent[r] \in DOMAIN local[e] \cup DOMAIN server
  BY <1>1 DEF LocalInv
<1> QED
  BY <1>4, <1>5, <1>6, <1>7, <1>8, <1>9, WriteKeeps DEF LocalUpdates

\* A step of a device's sync: what it leaves alone stays as it should be.
LEMMA SyncKeeps ==
  ASSUME IInv, NEW e \in Devices, SyncOnly, Shape', DeviceInv(e)',
         \A d \in Devices \ {e} : Same(d)
  PROVE  IInv'
BY ServerKept, OneDevice DEF IInv

LEMMA StartKeeps ==
  ASSUME IInv, NEW e \in Devices, SyncStarts(e)
  PROVE  IInv'
<1> USE DEF SyncStarts
<1>1. Shape /\ DeviceInv(e) /\ SyncOnly /\ Grows
  BY ServerKept DEF IInv
<1>2. Shape' /\ \A d \in Devices \ {e} : Same(d)
  BY <1>1 DEF Shape, Same
<1>3. pulled'[e] = <<>> /\ stamp'[e] = 0 /\ pc'[e] = "pull"
  BY <1>1 DEF Shape
<1>4. PulledInv(e)' /\ AnswerInv(e)' /\ PointInv(e)'
  BY <1>1, <1>3 DEF PulledInv, AnswerInv, PointInv, DeviceInv, Grows
<1> QED
  BY <1>1, <1>2, <1>4, LocalKept, RequestKept, SyncKeeps DEF DeviceInv

\* A page is of rows the server holds.
LEMMA PageKeeps ==
  ASSUME IInv, NEW e \in Devices, PullPage(e)
  PROVE  IInv'
<1>1. /\ Shape /\ ServerInv /\ DeviceInv(e) /\ SyncOnly /\ Grows /\ pc[e] = "pull"
      /\ UNCHANGED <<local, cursor, batch, request, answer>>
  BY ServerKept DEF IInv, PullPage
<1>2. Shape' /\ \A d \in Devices \ {e} : Same(d)
  BY <1>1 DEF Shape, Same, PullPage
<1>3. PulledInv(e)'
  <2>1. PICK page \in Pages(from[e]) :
          pulled' = [pulled EXCEPT ![e] = Overlay(pulled[e], [r \in page |->
                       [kind |-> Kind(r, from[e]), row |-> server[r]]])]
    BY DEF PullPage
  <2> DEFINE new == [r \in page |-> [kind |-> Kind(r, from[e]), row |-> server[r]]]
  <2>2. page \subseteq DOMAIN server
    BY DEF Pages, Changed
  <2>3. DOMAIN new = page /\ \A r \in page : new[r].row = server[r]
    OBVIOUS
  <2>4. pulled'[e] = Overlay(pulled[e], new)
    BY <1>1, <2>1 DEF Shape
  <2> HIDE DEF new
  <2>5. /\ DOMAIN Overlay(pulled[e], new) = DOMAIN pulled[e] \cup DOMAIN new
        /\ \A x \in DOMAIN new : Overlay(pulled[e], new)[x] = new[x]
        /\ \A x \in DOMAIN pulled[e] \ DOMAIN new :
             Overlay(pulled[e], new)[x] = pulled[e][x]
    BY OverlayFacts
  <2>6. server' = server /\ committed' = committed
    BY <1>1 DEF SyncOnly
  <2> QED
    BY <1>1, <2>2, <2>3, <2>4, <2>5, <2>6 DEF PulledInv, DeviceInv, ServerInv
<1>4. AnswerInv(e)' /\ PointInv(e)'
  <2>1. pc'[e] \in {"pull", "save"} /\ stamp'[e] \in {clock, stamp[e]}
    BY <1>1 DEF Shape, PullPage
  <2>2. clock \in Nat /\ clock' = clock
    BY <1>1 DEF SyncOnly, Grows
  <2>3. stamp'[e] \in 0 .. clock
    BY <1>1, <2>1, <2>2 DEF DeviceInv, PointInv
  <2> QED
    BY <1>1, <2>1, <2>2, <2>3 DEF AnswerInv, PointInv, DeviceInv
<1> QED
  BY <1>1, <1>2, <1>3, <1>4, LocalKept, RequestKept, SyncKeeps DEF DeviceInv

LEMMA SaveKeeps ==
  ASSUME IInv, NEW e \in Devices, NormalizeAndSave(e)
  PROVE  IInv'
<1> USE DEF NormalizeAndSave, PullEnds, CursorAfterPull
<1>1. Shape /\ DeviceInv(e) /\ SyncOnly /\ Grows
  BY ServerKept DEF IInv
<1>2. Shape' /\ \A d \in Devices \ {e} : Same(d)
  BY <1>1 DEF Shape, Same
<1>3. cursor'[e] = stamp[e] /\ stamp'[e] = 0 /\ pc'[e] = "merge"
  BY <1>1 DEF Shape
<1>4. AnswerInv(e)' /\ PointInv(e)'
  BY <1>1, <1>3 DEF AnswerInv, PointInv, DeviceInv, Grows, SyncOnly
<1>5. PulledInv(e)'
  <2>1. PICK S : S = {r \in DOMAIN pulled[e] : \/ pulled[e][r].kind # "created"
                                               \/ r \notin DOMAIN local[e]}
    OBVIOUS
  <2>2. pulled'[e] = Restrict(pulled[e], S) /\ S \subseteq DOMAIN pulled[e]
    BY <1>1, <2>1 DEF Shape
  <2>3. DOMAIN pulled'[e] = S /\ \A r \in S : pulled'[e][r] = pulled[e][r]
    BY <2>2 DEF Restrict
  <2> QED
    BY <1>1, <2>2, <2>3 DEF PulledInv, DeviceInv, SyncOnly
<1> QED
  BY <1>1, <1>2, <1>4, <1>5, LocalKept, RequestKept, SyncKeeps DEF DeviceInv

\* What a merge leaves in the device's tables.
LEMMA MergedRows ==
  ASSUME NEW e \in Devices
  PROVE  /\ DOMAIN Merged(e) \subseteq DOMAIN local[e] \cup DOMAIN pulled[e]
         /\ DOMAIN local[e] \subseteq DOMAIN Merged(e) \cup DOMAIN pulled[e]
         /\ \A r \in DOMAIN Merged(e) :
              \/ r \in DOMAIN local[e] /\ Merged(e)[r] = local[e][r]
              \/ /\ r \in DOMAIN pulled[e]
                 /\ Merged(e)[r] =
                      [status  |-> IF Dirty(e, r) THEN "updated" ELSE "synced",
                       version |-> pulled[e][r].row.version,
                       created |-> pulled[e][r].row.created,
                       updated |-> pulled[e][r].row.updated, held |-> FALSE]
<1>1. PICK gone : gone = {r \in DOMAIN pulled[e] : pulled[e][r].kind = "deleted"}
  OBVIOUS
<1>2. PICK take : take = DOMAIN pulled[e] \ (gone \cup
                    {r \in DOMAIN local[e] : local[e][r].status = "updated"})
  OBVIOUS
<1> DEFINE Row(r) ==
      [status  |-> IF Dirty(e, r) THEN "updated" ELSE "synced",
       version |-> pulled[e][r].row.version,
       created |-> pulled[e][r].row.created,
       updated |-> pulled[e][r].row.updated, held |-> FALSE]
<1>3. PICK new : new = [r \in take |-> Row(r)]
  OBVIOUS
<1>4. PICK old : old = Restrict(local[e], DOMAIN local[e] \ gone)
  OBVIOUS
<1>5. Merged(e) = Overlay(old, new)
  BY <1>1, <1>2, <1>3, <1>4 DEF Merged
<1>6. DOMAIN new = take /\ \A r \in take : new[r] = Row(r)
  BY <1>3
<1>7. /\ DOMAIN old = DOMAIN local[e] \ gone
      /\ \A r \in DOMAIN old : old[r] = local[e][r]
  BY <1>4 DEF Restrict
<1>8. /\ DOMAIN Overlay(old, new) = DOMAIN old \cup DOMAIN new
      /\ \A x \in DOMAIN new : Overlay(old, new)[x] = new[x]
      /\ \A x \in DOMAIN old \ DOMAIN new : Overlay(old, new)[x] = old[x]
  BY OverlayFacts
<1> HIDE DEF Row
<1>9. /\ gone \subseteq DOMAIN pulled[e] /\ take \subseteq DOMAIN pulled[e]
  BY <1>1, <1>2
<1>10. \A r \in DOMAIN Merged(e) :
         \/ r \in DOMAIN local[e] /\ Merged(e)[r] = local[e][r]
         \/ r \in DOMAIN pulled[e] /\ Merged(e)[r] = Row(r)
  BY <1>5, <1>6, <1>7, <1>8, <1>9
<1>11. /\ DOMAIN Merged(e) \subseteq DOMAIN local[e] \cup DOMAIN pulled[e]
       /\ DOMAIN local[e] \subseteq DOMAIN Merged(e) \cup DOMAIN pulled[e]
  BY <1>5, <1>6, <1>7, <1>8, <1>9
<1> QED
  BY <1>10, <1>11 DEF Row

LEMMA MergeKeeps ==
  ASSUME IInv, NEW e \in Devices, Merge(e)
  PROVE  IInv'
<1>1. /\ Shape /\ ServerInv /\ DeviceInv(e) /\ SyncOnly /\ Grows /\ pc[e] = "merge"
      /\ UNCHANGED <<cursor, stamp, batch, request, answer>>
  BY ServerKept DEF IInv, Merge
<1>2. Shape' /\ \A d \in Devices \ {e} : Same(d)
  BY <1>1 DEF Shape, Same, Merge
<1>3. local'[e] = Merged(e) /\ pulled'[e] = <<>> /\ pc'[e] = "collect"
  BY <1>1 DEF Shape, Merge
<1>4. PulledInv(e)' /\ AnswerInv(e)' /\ PointInv(e)'
  BY <1>1, <1>3 DEF PulledInv, AnswerInv, PointInv, DeviceInv, SyncOnly
<1>5. LocalInv(e)'
  <2>1. /\ LocalInv(e) /\ PulledInv(e) /\ DOMAIN server \subseteq Records
        /\ server' = server /\ committed' = committed /\ writes' = writes
    BY <1>1 DEF DeviceInv, SyncOnly, boundVars, ServerInv
  <2>2. DOMAIN Merged(e) \subseteq Records
    BY <2>1, MergedRows DEF LocalInv, PulledInv
  <2>3. ASSUME NEW r \in DOMAIN Merged(e),
               r \in DOMAIN local[e], Merged(e)[r] = local[e][r]
        PROVE  /\ Merged(e)[r] \in LocalRows /\ Merged(e)[r].version <= writes
               /\ Parent[r] # NoRecord => Parent[r] \in DOMAIN Merged(e) \cup DOMAIN server
               /\ Merged(e)[r].status = "synced" => Merged(e)[r].version \in committed[r]
    <3>1. DOMAIN local[e] \subseteq DOMAIN Merged(e) \cup DOMAIN pulled[e]
      BY MergedRows
    <3> QED
      BY <2>1, <2>3, <3>1 DEF LocalInv, PulledInv
  <2>4. ASSUME NEW r \in DOMAIN Merged(e), r \in DOMAIN pulled[e],
               Merged(e)[r] =
                 [status  |-> IF Dirty(e, r) THEN "updated" ELSE "synced",
                  version |-> pulled[e][r].row.version,
                  created |-> pulled[e][r].row.created,
                  updated |-> pulled[e][r].row.updated, held |-> FALSE]
        PROVE  /\ Merged(e)[r] \in LocalRows /\ Merged(e)[r].version <= writes
               /\ Parent[r] # NoRecord => Parent[r] \in DOMAIN Merged(e) \cup DOMAIN server
               /\ Merged(e)[r].status = "synced" => Merged(e)[r].version \in committed[r]
    <3>1. PICK row : row = pulled[e][r].row
      OBVIOUS
    <3>2. row \in ServerRows /\ row.version \in committed[r] /\ r \in DOMAIN server
      BY <2>1, <2>4, <3>1 DEF PulledInv
    <3>3. PICK status : status = IF Dirty(e, r) THEN "updated" ELSE "synced"
      OBVIOUS
    <3>4. Merged(e)[r] = [status |-> status, version |-> row.version,
                          created |-> row.created, updated |-> row.updated,
                          held |-> FALSE]
      BY <2>4, <3>1, <3>3
    <3>5. Merged(e)[r] \in LocalRows
      BY <3>2, <3>3, <3>4 DEF LocalRows, ServerRows
    <3>6. row.version <= writes
      BY <1>1, <2>1, <3>2 DEF ServerInv
    <3>7. Parent[r] # NoRecord => Parent[r] \in DOMAIN server
      BY <1>1, <3>2 DEF ServerInv
    <3> QED
      BY <3>2, <3>4, <3>5, <3>6, <3>7
  <2>5. ASSUME NEW r \in DOMAIN Merged(e)
        PROVE  /\ Merged(e)[r] \in LocalRows /\ Merged(e)[r].version <= writes
               /\ Parent[r] # NoRecord => Parent[r] \in DOMAIN Merged(e) \cup DOMAIN server
               /\ Merged(e)[r].status = "synced" => Merged(e)[r].version \in committed[r]
    BY <2>3, <2>4, MergedRows
  <2> QED
    BY <1>3, <2>1, <2>2, <2>5 DEF LocalInv
<1> QED
  BY <1>1, <1>2, <1>4, <1>5, RequestKept, SyncKeeps DEF DeviceInv

\* What goes is sent with what it refers to, or the server has that.
LEMMA CollectKeeps ==
  ASSUME IInv, NEW e \in Devices, Collect(e)
  PROVE  IInv'
<1>1. PICK rows : rows = Restrict(local[e],
                    {r \in Records : Dirty(e, r) /\ ~Withheld(e, r)})
  OBVIOUS
<1>2. /\ Shape /\ ServerInv /\ DeviceInv(e) /\ SyncOnly /\ Grows /\ pc[e] = "collect"
      /\ UNCHANGED <<local, cursor, stamp, pulled, answer>>
  BY ServerKept DEF IInv, Collect, Send, syncVars
<1>3. Shape' /\ \A d \in Devices \ {e} : Same(d)
  BY <1>2 DEF Shape, Same, Collect, Send, syncVars
<1>4. PointInv(e)'
  <2>1. pc'[e] \in {"push", "idle"}
    BY <1>2 DEF Shape, Collect, Send
  <2> QED
    BY <1>2, <2>1 DEF PointInv, DeviceInv, SyncOnly
<1>5. CASE pc'[e] = "push" /\ request'[e].rows = rows /\ batch'[e] = rows
  <2>1. /\ DOMAIN rows = {r \in Records : Dirty(e, r) /\ ~Withheld(e, r)}
        /\ \A r \in DOMAIN rows : rows[r] = local[e][r]
    BY <1>1 DEF Restrict
  <2>2. ASSUME NEW r \in DOMAIN rows, Parent[r] # NoRecord
        PROVE  Parent[r] \in DOMAIN rows \cup DOMAIN server
    <3>1. r \in Records /\ r \in DOMAIN local[e] /\ ~Held(e, Parent[r])
      BY <2>1 DEF Dirty, Withheld
    <3>2. PICK q \in Records : q = Parent[r] /\ Parent[q] = NoRecord
      BY <2>2, <3>1
    <3>3. q \in DOMAIN local[e] \cup DOMAIN server
      BY <1>2, <2>2, <3>1, <3>2 DEF DeviceInv, LocalInv
    <3>4. CASE q \in DOMAIN local[e] /\ Dirty(e, q)
      <4>1. ~Held(e, q) /\ ~Held(e, NoRecord)
        BY <1>2, <3>1, <3>2 DEF Held, DeviceInv, LocalInv
      <4> QED
        BY <2>1, <3>2, <3>4, <4>1 DEF Withheld
    <3>5. CASE q \in DOMAIN local[e] /\ ~Dirty(e, q)
      <4>1. local[e][q].version \in committed[q]
        BY <1>2, <3>5 DEF Dirty, DeviceInv, LocalInv
      <4> QED
        BY <1>2, <3>2, <4>1 DEF ServerInv
    <3> QED
      BY <3>2, <3>3, <3>4, <3>5
  <2>3. RequestInv(e)'
    BY <1>2, <1>5, <2>1, <2>2
    DEF RequestInv, DeviceInv, LocalInv, Dirty, SyncOnly, boundVars
  <2>4. AnswerInv(e)'
    BY <1>2, <1>5 DEF AnswerInv, DeviceInv
  <2> QED
    BY <1>2, <1>3, <1>4, <2>3, <2>4, LocalKept, PulledKept, SyncKeeps DEF DeviceInv
<1>6. CASE pc'[e] = "idle" /\ request' = request
  <2>1. AnswerInv(e)'
    BY <1>2, <1>6 DEF AnswerInv, DeviceInv
  <2> QED
    BY <1>2, <1>3, <1>4, <1>6, <2>1, LocalKept, PulledKept, RequestKept, SyncKeeps
    DEF DeviceInv
<1>7. \/ pc'[e] = "push" /\ request'[e].rows = rows /\ batch'[e] = rows
      \/ pc'[e] = "idle" /\ request' = request
  <2>1. CASE rows # <<>>
    <3>1. Send(e, rows)
      BY <1>1, <2>1 DEF Collect
    <3> QED
      BY <1>2, <3>1 DEF Send, Shape
  <2>2. CASE rows = <<>>
    BY <1>1, <1>2, <2>2 DEF Collect, Shape, syncVars
  <2> QED
    BY <2>1, <2>2
<1> QED
  BY <1>5, <1>6, <1>7

\* The server skips no row of a request it takes.
LEMMA PushKeeps ==
  ASSUME IInv, NEW e \in Devices, ServerPush(e)
  PROVE  IInv'
<1>1. PICK rows : rows = request[e].rows
  OBVIOUS
<1>2. PICK verdict \in {"200", "404", "409"} :
        /\ request' = [request EXCEPT ![e] = NoRequest]
        /\ answer' = [answer EXCEPT ![e] = IF pc[e] = "push" THEN verdict ELSE "none"]
        /\ UNCHANGED <<clock, local, cursor, pc, from, stamp, pulled, batch,
                       boundVars, seen>>
        /\ \/ UNCHANGED <<server, committed>> /\ verdict # "200"
           \/ /\ verdict = "200" /\ server' = Overlay(server, Upsert(rows))
              /\ committed' = [r \in Records |-> committed[r] \cup
                   {rows[q].version : q \in Accepted(rows) \cap {r}}]
  BY <1>1 DEF ServerPush, Respond
<1>3. /\ Shape /\ ServerInv /\ DeviceInv(e) /\ request[e].sent
      /\ clock' = clock /\ writes' = writes
  BY <1>2 DEF IInv, ServerPush, boundVars
<1>4. Shape' /\ \A d \in Devices \ {e} : Same(d)
  BY <1>2, <1>3 DEF Shape, Same
<1>5. /\ request'[e] = NoRequest
      /\ answer'[e] = IF pc[e] = "push" THEN verdict ELSE "none"
      /\ UNCHANGED <<local, cursor, pc, stamp, pulled, batch>>
  BY <1>2, <1>3 DEF Shape
<1>6. RequestInv(e)' /\ PointInv(e)'
  <2>1. answer'[e] \in {"none", "200", "404", "409"}
    BY <1>5
  <2>2. DOMAIN request'[e].rows = {} /\ request'[e].sent = FALSE
    BY <1>5 DEF NoRequest
  <2> QED
    BY <1>3, <1>5, <2>1, <2>2 DEF RequestInv, DeviceInv, PointInv
<1>7. CASE UNCHANGED <<server, committed>> /\ verdict # "200"
  <2>1. Grows /\ ServerInv'
    BY <1>3, <1>7 DEF Grows, ServerInv, Times
  <2>2. AnswerInv(e)'
    BY <1>3, <1>5, <1>7 DEF AnswerInv, DeviceInv, NoRequest
  <2> QED
    BY <1>3, <1>4, <1>5, <1>6, <2>1, <2>2, LocalKept, PulledKept, OneDevice DEF DeviceInv
<1>8. CASE /\ verdict = "200" /\ server' = Overlay(server, Upsert(rows))
           /\ committed' = [r \in Records |-> committed[r] \cup
                {rows[q].version : q \in Accepted(rows) \cap {r}}]
  <2>1. Accepted(rows) = DOMAIN rows
    BY <1>1, <1>3 DEF Accepted, DeviceInv, RequestInv
  <2>2. PICK new : new = Upsert(rows)
    OBVIOUS
  <2>3. /\ DOMAIN new = DOMAIN rows
        /\ \A r \in DOMAIN rows :
             new[r] = [version |-> rows[r].version, created |-> rows[r].created,
                       updated |-> rows[r].updated, deleted |-> FALSE]
    BY <2>1, <2>2 DEF Upsert
  <2>4. /\ DOMAIN Overlay(server, new) = DOMAIN server \cup DOMAIN new
        /\ \A x \in DOMAIN new : Overlay(server, new)[x] = new[x]
        /\ \A x \in DOMAIN server \ DOMAIN new : Overlay(server, new)[x] = server[x]
    BY OverlayFacts
  <2>5. /\ DOMAIN server' = DOMAIN server \cup DOMAIN rows
        /\ \A r \in DOMAIN rows : server'[r] = new[r]
        /\ \A r \in DOMAIN server \ DOMAIN rows : server'[r] = server[r]
    BY <1>8, <2>2, <2>3, <2>4
  <2>6. ASSUME NEW r \in DOMAIN rows
        PROVE  /\ r \in Records /\ rows[r] \in LocalRows /\ rows[r].version \in 1 .. writes
               /\ Parent[r] # NoRecord => Parent[r] \in DOMAIN server'
               /\ new[r] \in ServerRows /\ new[r].version = rows[r].version
    <3>1. /\ r \in Records /\ rows[r] \in LocalRows /\ rows[r].version <= writes
          /\ Parent[r] # NoRecord => Parent[r] \in DOMAIN server'
      BY <1>1, <1>3, <2>5 DEF DeviceInv, RequestInv
    <3>2. rows[r].version \in 1 .. writes
      BY <1>3, <3>1 DEF LocalRows, Versions, ServerInv
    <3>3. new[r] = [version |-> rows[r].version, created |-> rows[r].created,
                    updated |-> rows[r].updated, deleted |-> FALSE]
      BY <2>3
    <3>4. /\ rows[r].version \in Versions /\ rows[r].created \in Times
          /\ rows[r].updated \in Times
      BY <3>1 DEF LocalRows
    <3>5. new[r] \in ServerRows
      BY <3>3, <3>4 DEF ServerRows
    <3>6. new[r].version = rows[r].version
      BY <3>3
    <3> QED
      BY <3>1, <3>2, <3>5, <3>6
  <2>7. \A r \in Records : committed'[r] =
          committed[r] \cup {rows[q].version : q \in DOMAIN rows \cap {r}}
    BY <1>8, <2>1
  <2>8. \A r \in Records : committed[r] \subseteq committed'[r]
    BY <2>7
  <2>9. \A r \in DOMAIN rows : rows[r].version \in committed'[r]
    BY <2>6, <2>7
  <2>10. ASSUME NEW r \in Records
         PROVE  /\ committed'[r] \subseteq 1 .. writes
                /\ committed'[r] # {} => r \in DOMAIN server'
    BY <1>3, <2>5, <2>6, <2>7 DEF ServerInv
  <2>11. ASSUME NEW r \in DOMAIN server'
         PROVE  /\ r \in Records /\ server'[r] \in ServerRows
                /\ server'[r].version \in committed'[r]
                /\ Parent[r] # NoRecord => Parent[r] \in DOMAIN server'
    <3>1. CASE r \in DOMAIN rows
      BY <2>5, <2>6, <2>9, <3>1
    <3>2. CASE r \in DOMAIN server \ DOMAIN rows
      BY <1>3, <2>5, <2>8, <3>2 DEF ServerInv
    <3> QED
      BY <2>5, <3>1, <3>2
  <2>12. ServerInv'
    BY <1>3, <2>10, <2>11 DEF ServerInv
  <2>13. Grows
    BY <1>3, <2>5, <2>8 DEF Grows, ServerInv, Times
  <2>14. AnswerInv(e)'
    <3>1. pc[e] = "push" => rows = batch[e]
      BY <1>1, <1>3 DEF DeviceInv, AnswerInv
    <3> QED
      BY <1>3, <1>5, <2>6, <2>9, <3>1 DEF AnswerInv, DeviceInv, NoRequest
  <2> QED
    BY <1>3, <1>4, <1>5, <1>6, <2>12, <2>13, <2>14, LocalKept, PulledKept, OneDevice
    DEF DeviceInv
<1> QED
  BY <1>2, <1>7, <1>8

\* A row that is marked is still the one the server took.
LEMMA MarkKeeps ==
  ASSUME IInv, NEW e \in Devices, MarkSynced(e)
  PROVE  IInv'
<1>1. /\ Shape /\ DeviceInv(e) /\ SyncOnly /\ Grows /\ pc[e] = "push" /\ answer[e] = "200"
      /\ UNCHANGED <<cursor, stamp, pulled, request>>
  BY ServerKept DEF IInv, MarkSynced
<1>2. Shape' /\ \A d \in Devices \ {e} : Same(d)
  BY <1>1 DEF Shape, Same, MarkSynced
<1>3. pc'[e] = "idle" /\ answer'[e] = "none" /\ batch'[e] = <<>>
  BY <1>1 DEF Shape, MarkSynced
<1>4. AnswerInv(e)' /\ PointInv(e)'
  BY <1>1, <1>3 DEF AnswerInv, PointInv, DeviceInv, SyncOnly
<1>5. LocalInv(e)'
  <2>1. local'[e] = [r \in DOMAIN local[e] |->
          IF PushedAsIs(e, r) THEN [local[e][r] EXCEPT !.status = "synced"]
                              ELSE local[e][r]]
    BY <1>1 DEF Shape, MarkSynced
  <2>2. /\ LocalInv(e) /\ server' = server /\ committed' = committed
        /\ writes' = writes
    BY <1>1 DEF DeviceInv, SyncOnly, boundVars
  <2>3. ASSUME NEW r \in DOMAIN local[e]
        PROVE  /\ local'[e][r] \in LocalRows
               /\ local'[e][r].version = local[e][r].version
               /\ local'[e][r].status = "synced" => local[e][r].version \in committed[r]
    <3>1. local[e][r] \in LocalRows
      BY <2>2 DEF LocalInv
    <3>2. CASE PushedAsIs(e, r)
      <4>1. local[e][r].version \in committed[r]
        BY <1>1, <3>2 DEF PushedAsIs, DeviceInv, AnswerInv
      <4>2. local'[e][r] = [local[e][r] EXCEPT !.status = "synced"]
        BY <2>1, <3>2
      <4> QED
        BY <3>1, <4>1, <4>2 DEF LocalRows
    <3>3. CASE ~PushedAsIs(e, r)
      <4>1. local'[e][r] = local[e][r]
        BY <2>1, <3>3
      <4> QED
        BY <2>2, <4>1 DEF LocalInv
    <3> QED
      BY <3>2, <3>3
  <2>4. DOMAIN local'[e] = DOMAIN local[e]
    BY <2>1
  <2> QED
    BY <2>2, <2>3, <2>4 DEF LocalInv
<1> QED
  BY <1>1, <1>2, <1>4, <1>5, PulledKept, RequestKept, SyncKeeps DEF DeviceInv

LEMMA RefusedKeeps ==
  ASSUME IInv, NEW e \in Devices, PushRefused(e)
  PROVE  IInv'
<1>1. /\ Shape /\ DeviceInv(e) /\ SyncOnly /\ Grows
      /\ UNCHANGED <<local, stamp, pulled, request>>
  BY ServerKept DEF IInv, PushRefused
<1>2. Shape' /\ \A d \in Devices \ {e} : Same(d)
  BY <1>1 DEF Shape, Same, PushRefused
<1>3. pc'[e] = "idle" /\ answer'[e] = "none" /\ cursor'[e] = 0
  BY <1>1 DEF Shape, PushRefused
<1>4. AnswerInv(e)' /\ PointInv(e)'
  BY <1>1, <1>3 DEF AnswerInv, PointInv, DeviceInv, SyncOnly, Grows
<1> QED
  BY <1>1, <1>2, <1>4, LocalKept, PulledKept, RequestKept, SyncKeeps DEF DeviceInv

LEMMA AbandonKeeps ==
  ASSUME IInv, NEW e \in Devices, Stops(e) \/ PushFails(e)
  PROVE  IInv'
<1> USE DEF Stops, PushFails, Abandon, PullEnds, historyVars
<1>1. /\ Shape /\ ServerInv /\ DeviceInv(e)
      /\ UNCHANGED <<clock, server, local, cursor, writes, committed>>
  BY DEF IInv
<1>2. Grows /\ ServerInv'
  BY <1>1 DEF Grows, ServerInv, Times
<1>3. Shape' /\ \A d \in Devices \ {e} : Same(d)
  BY <1>1 DEF Shape, Same
<1>4. /\ pc'[e] = "idle" /\ answer'[e] = "none" /\ stamp'[e] = 0 /\ pulled'[e] = <<>>
      /\ request'[e] \in {request[e], NoRequest}
  BY <1>1 DEF Shape
<1>5. AnswerInv(e)' /\ PointInv(e)' /\ PulledInv(e)'
  BY <1>1, <1>2, <1>4 DEF AnswerInv, PointInv, PulledInv, DeviceInv, Grows
<1>6. RequestInv(e)'
  BY <1>1, <1>4 DEF RequestInv, DeviceInv, NoRequest
<1> QED
  BY <1>1, <1>2, <1>3, <1>5, <1>6, LocalKept, OneDevice DEF DeviceInv

LEMMA DeletionKeeps ==
  ASSUME IInv, NEW r \in Records, ServerDeletes(r)
  PROVE  IInv'
<1> USE DEF ServerDeletes, syncVars, historyVars
<1>1. ServerInv /\ Shape /\ clock \in Times
  BY DEF IInv, ServerInv
<1>2. /\ DOMAIN server' = DOMAIN server
      /\ \A q \in DOMAIN server \ {r} : server'[q] = server[q]
      /\ server'[r] = [server[r] EXCEPT !.deleted = TRUE, !.updated = clock]
  OBVIOUS
<1>3. server'[r] \in ServerRows /\ server'[r].version = server[r].version
  <2>1. server[r] \in ServerRows
    BY <1>1 DEF ServerInv
  <2> QED
    BY <1>1, <1>2, <2>1 DEF ServerRows
<1>4. ServerInv'
  BY <1>1, <1>2, <1>3 DEF ServerInv
<1>5. Grows
  BY <1>1, <1>2 DEF Grows, ServerInv, Times
<1>6. Shape'
  BY <1>1 DEF Shape
<1>7. ASSUME NEW d \in Devices PROVE DeviceInv(d)'
  BY <1>5, DeviceKept DEF IInv, Same
<1> QED
  BY <1>4, <1>6, <1>7 DEF IInv
-----------------------------------------------------------------------------
(* The theorems.                                                           *)

LEMMA StepKeeps == IInv /\ [Next]_vars => IInv'
<1> SUFFICES ASSUME IInv, [Next]_vars PROVE IInv'
  OBVIOUS
<1>1. CASE Tick
  BY <1>1, TickKeeps
<1>2. ASSUME NEW d \in Devices, NEW r \in Records, LocalUpdates(d, r) PROVE IInv'
  BY <1>2, UpdateKeeps
<1>3. ASSUME NEW d \in Devices, NEW r \in Records, NEW held \in BOOLEAN,
             LocalCreates(d, r, held)
      PROVE  IInv'
  BY <1>3, CreateKeeps
<1>4. ASSUME NEW d \in Devices, SyncStep(d) PROVE IInv'
  BY <1>4, StartKeeps, PageKeeps, SaveKeeps, MergeKeeps, CollectKeeps, MarkKeeps,
     RefusedKeeps DEF SyncStep
<1>5. ASSUME NEW d \in Devices, ServerPush(d) PROVE IInv'
  BY <1>5, PushKeeps
<1>6. ASSUME NEW d \in Devices, Stops(d) \/ PushFails(d) PROVE IInv'
  BY <1>6, AbandonKeeps
<1>7. ASSUME NEW r \in Records, ServerDeletes(r) PROVE IInv'
  BY <1>7, DeletionKeeps
<1>8. CASE UNCHANGED vars
  BY <1>8 DEF vars, syncVars, boundVars, historyVars, IInv, ServerInv, Shape,
     DeviceInv, LocalInv, PulledInv, RequestInv, AnswerInv, PointInv
<1> QED
  BY <1>1, <1>2, <1>3, <1>4, <1>5, <1>6, <1>7, <1>8 DEF Next

\* IInv is an inductive invariant of the synchronisation.
THEOREM Invariance == Spec => []IInv
<1> QED
  BY InitEstablishes, StepKeeps, PTL DEF Spec

\* Every variable keeps its type, however many devices, records and failures.
THEOREM TypeCorrect == Spec => []TypeOK
<1>1. IInv => TypeOK
  BY DEF IInv, ServerInv, DeviceInv, LocalInv, PointInv, TypeOK
<1> QED
  BY <1>1, Invariance, PTL

\* What a device takes for synced, the server has had: no row skipped for want
\* of its parent, withheld, or written again during the push is ever marked.
THEOREM SyncedWasCommitted == Spec => []SyncedIsCommitted
<1>1. IInv => SyncedIsCommitted
  BY DEF IInv, DeviceInv, LocalInv, SyncedIsCommitted
<1> QED
  BY <1>1, Invariance, PTL

\* A push never brings back a row the server deleted.
THEOREM DeletionIsFinal == Spec => DeletedStaysDeleted
<1>1. IInv /\ [Next]_vars =>
        [\A r \in DOMAIN server : server[r].deleted => server'[r].deleted]_vars
  <2> SUFFICES ASSUME IInv, Next, NEW r \in DOMAIN server, server[r].deleted
               PROVE  server'[r].deleted
    OBVIOUS
  <2>1. ASSUME NEW d \in Devices, ServerPush(d) PROVE server'[r].deleted
    <3>1. CASE server' = server
      BY <3>1
    <3>2. CASE server' # server
      <4>1. PICK rows : rows = request[d].rows
        OBVIOUS
      <4>2. /\ server' = Overlay(server, Upsert(rows))
            /\ Conflicts(rows, request[d].last) = {}
            /\ Tombstones(rows) \ Conflicts(rows, request[d].last) = {}
        BY <2>1, <3>2, <4>1 DEF ServerPush
      <4>3. r \notin Accepted(rows)
        BY <4>2 DEF Tombstones
      <4>4. DOMAIN Upsert(rows) = Accepted(rows)
        BY DEF Upsert
      <4>5. Overlay(server, Upsert(rows))[r] = server[r]
        BY <4>3, <4>4 DEF Overlay
      <4> QED
        BY <4>2, <4>5
    <3> QED
      BY <3>1, <3>2
  <2>2. ASSUME NEW q \in Records, ServerDeletes(q) PROVE server'[r].deleted
    <3>1. CASE q = r
      BY <2>2, <3>1 DEF ServerDeletes
    <3>2. CASE q # r
      BY <2>2, <3>2 DEF ServerDeletes
    <3> QED
      BY <3>1, <3>2
  <2>3. \/ server' = server
        \/ \E d \in Devices : ServerPush(d)
        \/ \E q \in Records : ServerDeletes(q)
    <3>1. ASSUME NEW d \in Devices, SyncStep(d) PROVE server' = server
      BY <3>1 DEF SyncStep, SyncOnly, SyncStarts, PullPage, NormalizeAndSave, Merge,
         Collect, Send, MarkSynced, PushRefused
    <3>2. ASSUME NEW d \in Devices, Stops(d) \/ PushFails(d) PROVE server' = server
      BY <3>2 DEF Stops, PushFails, Abandon
    <3>3. ASSUME NEW d \in Devices, NEW q \in Records,
                 LocalUpdates(d, q) \/ \E held \in BOOLEAN : LocalCreates(d, q, held)
          PROVE  server' = server
      BY <3>3 DEF LocalUpdates, LocalCreates, UserOnly
    <3>4. Tick => server' = server
      BY DEF Tick
    <3> QED
      BY <3>1, <3>2, <3>3, <3>4 DEF Next
  <2> QED
    BY <2>1, <2>2, <2>3
<1> QED
  BY <1>1, Invariance, PTL DEF Spec, DeletedStaysDeleted

\* An edit the server has not had outlives merges, failures and restarts.
THEOREM EditSurvives == Spec => UnpushedEditSurvives
<1>1. IInv /\ [Next]_vars =>
        [\A d \in Devices : \A r \in DOMAIN local[d] :
           (local[d][r].status # "created" /\ local[d][r].version \notin committed[r])
             => \/ r \notin DOMAIN local'[d]
                \/ local'[d][r].version >= local[d][r].version]_vars
  <2> SUFFICES ASSUME IInv, Next, NEW d \in Devices, NEW r \in DOMAIN local[d],
                      local[d][r].status # "created",
                      local[d][r].version \notin committed[r],
                      r \in DOMAIN local'[d]
               PROVE  local'[d][r].version >= local[d][r].version
    OBVIOUS
  <2>1. /\ local[d][r] \in LocalRows /\ local[d][r].version <= writes /\ writes \in Nat
        /\ local[d][r].status # "synced" /\ DOMAIN local = Devices /\ r \in Records
    BY DEF IInv, DeviceInv, LocalInv, ServerInv, Shape
  <2>2. local[d][r].version \in Nat
    BY <2>1 DEF LocalRows, Versions
  <2>3. local[d][r].status = "updated"
    BY <2>1 DEF LocalRows
  <2>4. SUFFICES local'[d][r].version \in {local[d][r].version, writes + 1}
    BY <2>1, <2>2, <2>4
  <2>5. CASE UNCHANGED local
    BY <2>5
  <2>6. ASSUME NEW e \in Devices, NEW q \in Records, NEW held \in BOOLEAN,
               LocalCreates(e, q, held)
        PROVE  local'[d][r] = local[d][r]
    <3>1. CASE e # d
      BY <2>1, <2>6, <3>1 DEF LocalCreates
    <3>2. CASE e = d
      <4>1. PICK new : /\ DOMAIN new = {q} /\ local'[d] = Overlay(local[d], new)
        BY <2>1, <2>6, <3>2 DEF LocalCreates
      <4>2. q # r
        BY <2>6, <3>2 DEF LocalCreates
      <4> QED
        BY <4>1, <4>2 DEF Overlay
    <3> QED
      BY <3>1, <3>2
  <2>7. ASSUME NEW e \in Devices, NEW q \in Records, LocalUpdates(e, q)
        PROVE  local'[d][r].version \in {local[d][r].version, writes + 1}
    <3>1. CASE e = d /\ q = r
      BY <2>1, <2>7, <3>1 DEF LocalUpdates
    <3>2. CASE e # d \/ q # r
      BY <2>1, <2>7, <3>2 DEF LocalUpdates
    <3> QED
      BY <3>1, <3>2
  <2>8. ASSUME NEW e \in Devices, Merge(e) PROVE local'[d][r] = local[d][r]
    <3>1. CASE e # d
      BY <2>1, <2>8, <3>1 DEF Merge
    <3>2. CASE e = d
      <4>1. local'[d] = Merged(d)
        BY <2>1, <2>8, <3>2 DEF Merge
      <4> DEFINE gone == {x \in DOMAIN pulled[d] : pulled[d][x].kind = "deleted"}
                 take == DOMAIN pulled[d] \ (gone \cup
                           {x \in DOMAIN local[d] : local[d][x].status = "updated"})
      <4>2. r \notin take
        BY <2>3
      <4>3. PICK new : /\ DOMAIN new = take
                       /\ Merged(d) = Overlay(Restrict(local[d], DOMAIN local[d] \ gone), new)
        BY DEF Merged
      <4> HIDE DEF gone, take
      <4> QED
        BY <4>1, <4>2, <4>3 DEF Overlay, Restrict
    <3> QED
      BY <3>1, <3>2
  <2>9. ASSUME NEW e \in Devices, MarkSynced(e)
        PROVE  local'[d][r].version = local[d][r].version
    <3>1. CASE e # d
      BY <2>1, <2>9, <3>1 DEF MarkSynced
    <3>2. CASE e = d
      <4>1. local'[d][r] = IF PushedAsIs(d, r)
                             THEN [local[d][r] EXCEPT !.status = "synced"]
                             ELSE local[d][r]
        BY <2>1, <2>9, <3>2 DEF MarkSynced
      <4> QED
        BY <2>1, <4>1 DEF LocalRows
    <3> QED
      BY <3>1, <3>2
  <2>10. \/ UNCHANGED local
         \/ \E e \in Devices : Merge(e) \/ MarkSynced(e)
         \/ \E e \in Devices, q \in Records : LocalUpdates(e, q)
         \/ \E e \in Devices, q \in Records, held \in BOOLEAN : LocalCreates(e, q, held)
    <3>1. ASSUME NEW e \in Devices,
                 SyncStarts(e) \/ PullPage(e) \/ NormalizeAndSave(e) \/ PushRefused(e)
          PROVE  UNCHANGED local
      BY <3>1 DEF SyncStarts, PullPage, NormalizeAndSave, PushRefused
    <3>2. ASSUME NEW e \in Devices, Collect(e) PROVE UNCHANGED local
      BY <3>2 DEF Collect, Send
    <3>3. ASSUME NEW e \in Devices, Stops(e) \/ PushFails(e) \/ ServerPush(e)
          PROVE  UNCHANGED local
      BY <3>3 DEF Stops, PushFails, Abandon, ServerPush, Respond
    <3>4. ASSUME NEW q \in Records, Tick \/ ServerDeletes(q) PROVE UNCHANGED local
      BY <3>4 DEF Tick, ServerDeletes
    <3>5. Tick => UNCHANGED local
      BY DEF Tick
    <3> QED
      BY <3>1, <3>2, <3>3, <3>4, <3>5 DEF Next, SyncStep
  <2> QED
    BY <2>5, <2>6, <2>7, <2>8, <2>9, <2>10
<1> QED
  BY <1>1, Invariance, PTL DEF Spec, UnpushedEditSurvives
=============================================================================
