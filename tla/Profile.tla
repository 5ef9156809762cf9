------------------------------ MODULE Profile ------------------------------
(***************************************************************************)
(* The traffic profile: the Top app of rush/src/flow.rs, behind a Split,   *)
(* counts each packet in a slot of a memory-mapped file; the frontend      *)
(* sends the file (frontend/frontend.js); the page takes a snapshot of it  *)
(* now and then (frontend/client/client.js Profile) and shows what changed *)
(* since the last one (frontend/client/ui.js Top).  Nothing keeps rush     *)
(* from writing a slot while it is read: each of a slot's three words is   *)
(* stored by a step of its own, in any order (the compiler may choose      *)
(* one), and read by a step of its own, in the order of the file.  A flow  *)
(* ID is the tuple it encodes.                                             *)
(***************************************************************************)
EXTENDS Flows, Integers

CONSTANTS NSLOTS,         \* FLOWTOP_NSLOTS
          flow_slot(_)    \* the slot a flow ID is hashed to

ASSUME SlotsAssumption == NSLOTS \in Nat /\ NSLOTS > 0
ASSUME HashAssumption ==
  \A s \in Scenarios : \A i \in DOMAIN s.traffic, dir \in Directions :
    flow_slot(flow_count(s.traffic[i].p, dir)) \in 0..(NSLOTS - 1)

VARIABLES watched,   \* the direction of the profile
          path,      \* packets between Split and Top
          slots,     \* the mapped file: slot -> [packets, bits, id]
          pending,   \* the words of the slot that flowtop_inc has yet to store
          counted,   \* history: [id, bits] of the packets Top received
          tally,     \* history: packets and bits in each slot after k packets, if
                     \* each were counted in one step
          requests,  \* the requests for snapshots, in the order they were made
          prev,      \* the snapshot of the last refresh that was shown, or 0
          shown      \* history: [rows, prev, cur] of the table on display

topVars == <<path, slots, pending, counted, tally>>
tableVars == <<requests, prev, shown>>
profileVars == <<flowVars, watched, topVars, tableVars>>

Slots == 0..(NSLOTS - 1)
Layout == <<"packets", "bits", "id">>
Words == Range(Layout)
NoTuple == [ip |-> 0, protocol |-> 0, port |-> 0]
Unused == [packets |-> 0, bits |-> 0, id |-> NoTuple]

ProfileInit == /\ FlowsInit
        /\ watched \in Directions
        /\ path = << >>
        /\ slots = [s \in Slots |-> Unused]
        /\ pending = {}
        /\ counted = << >>
        /\ tally = [k \in {0} |-> [s \in Slots |-> [packets |-> 0, bits |-> 0]]]
        /\ requests = << >>
        /\ prev = 0 /\ shown = {}

-----------------------------------------------------------------------------
(* Split and Top.                                                          *)

\* Split's push; the QoS apps between it and Top are left out.
SplitPush(dir) ==
  /\ Push(dir)
  /\ path' = IF dir = watched THEN Append(path, Head(input[dir])) ELSE path
  /\ UNCHANGED <<slots, pending, counted, tally>>

\* The history of one more packet.
Tally(c) ==
  LET n == Len(counted)
  IN tally' = [k \in 0..(n + 1) |->
                 IF k <= n THEN tally[k]
                 ELSE [tally[n] EXCEPT ![flow_slot(c.id)] =
                         [packets |-> @.packets + 1, bits |-> @.bits + c.bits]]]

\* Top's push, one packet: flow_count finds its tuple ...
TopPush ==
  /\ pending = {}
  /\ path # << >>
  /\ path' = Tail(path)
  /\ LET c == [id |-> flow_count(Head(path), watched), bits |-> Head(path).bits]
     IN counted' = Append(counted, c) /\ Tally(c)
  /\ pending' = Words
  /\ UNCHANGED slots

\* ... and flowtop_inc stores the words of its slot.
flowtop_inc(w) ==
  /\ w \in pending
  /\ pending' = pending \ {w}
  /\ LET c == Last(counted)
         new == [slots[flow_slot(c.id)] EXCEPT !.packets = @ + 1,
                                               !.bits = @ + c.bits, !.id = c.id]
     IN slots' = [slots EXCEPT ![flow_slot(c.id)][w] = new[w]]
  /\ UNCHANGED <<path, counted, tally>>

\* Packets counted to the last word.
Complete == Len(counted) - (IF pending = {} THEN 0 ELSE 1)

-----------------------------------------------------------------------------
(* The frontend and the page.                                              *)

\* A request: whether it was answered, how many words of the file were read,
\* the words, and (for the properties) how many packets had been counted, to the
\* last word, when it was made and how many Top had received when it ended.
NewRequest == [answered |-> FALSE, read |-> 0, file |-> [s \in Slots |-> Unused],
               began |-> Complete, ended |-> 0]

\* refreshTable asks for the profile; an earlier request may still be under way.
refreshTable ==
  /\ Len(requests) < scenario.refreshes
  /\ requests' = Append(requests, NewRequest)
  /\ UNCHANGED <<prev, shown>>

\* sendFile reads the next word of the file.  (That its callback throws when the file
\* is missing or the transfer is aborted, which ends the frontend, is in module
\* Reload; here such a request is one that is never answered.)
sendFile(r) ==
  /\ requests[r].read < 3 * NSLOTS
  /\ LET s == requests[r].read \div 3
         w == Layout[1 + (requests[r].read % 3)]
     IN requests' = [requests EXCEPT ![r].read = @ + 1,
                           ![r].file[s][w] = slots[s][w],
                           ![r].ended = Len(counted)]
  /\ UNCHANGED <<prev, shown>>

\* _parse: the flow of each slot of the file f in use.  For an ID that is in two of
\* them the later one counts.
ParsedSlots(f) == {s \in Slots : f[s].packets > 0}
ParsedIds(f) == {f[s].id : s \in ParsedSlots(f)}
Parsed(f, id) == f[Max({s \in ParsedSlots(f) : f[s].id = id})]

\* Mutant: a flow that the last snapshot does not have counts from 0.
diff_FromZero(f, g) ==
  LET before(id) == IF id \in ParsedIds(g) THEN Parsed(g, id) ELSE Unused
      delta(id) == [id |-> id, packets |-> Parsed(f, id).packets - before(id).packets,
                    bits |-> Parsed(f, id).bits - before(id).bits]
  IN {d \in {delta(id) : id \in ParsedIds(f)} : d.packets > 0 /\ d.bits > 0}
\* snapshot.diff: the flows of f that the earlier g has, by what they have more.
diff(f, g) ==
  LET delta(id) == [id |-> id, packets |-> Parsed(f, id).packets - Parsed(g, id).packets,
                    bits |-> Parsed(f, id).bits - Parsed(g, id).bits]
  IN {d \in {delta(id) : id \in ParsedIds(f) \cap ParsedIds(g)} : d.packets > 0 /\ d.bits > 0}

\* The answer: the table is rendered if there is a snapshot to compare with.
Answered(r) ==
  /\ requests[r].read = 3 * NSLOTS /\ ~requests[r].answered
  /\ requests' = [requests EXCEPT ![r].answered = TRUE]
  /\ prev' = r
  /\ shown' = IF prev = 0 THEN shown
              ELSE {[rows |-> diff(requests[r].file, requests[prev].file), prev |-> prev, cur |-> r]}

-----------------------------------------------------------------------------

\* rush is one thread: nothing comes between the words that it stores.
FlowsStep ==
  /\ pending = {}
  /\ \/ Receive /\ UNCHANGED topVars
     \/ \E dir \in Directions : SplitPush(dir)
     \/ \E fl \in scenario.lists : Reload(fl) /\ UNCHANGED topVars

TopStep == TopPush \/ \E w \in Words : flowtop_inc(w)

PageStep == refreshTable \/ \E r \in DOMAIN requests : sendFile(r) \/ Answered(r)

ProfileNext == /\ UNCHANGED watched
        /\ \/ FlowsStep /\ UNCHANGED tableVars
           \/ TopStep /\ UNCHANGED <<flowVars, tableVars>>
           \/ PageStep /\ UNCHANGED <<flowVars, topVars>>

ProfileSpec == ProfileInit /\ [][ProfileNext]_profileVars

-----------------------------------------------------------------------------

\* What came between the i-th packet and the j-th in the slot of id.
PacketsBetween(id, i, j) == tally[j][flow_slot(id)].packets - tally[i][flow_slot(id)].packets
BitsBetween(id, i, j) == tally[j][flow_slot(id)].bits - tally[i][flow_slot(id)].bits
Alone(id) == \A k \in DOMAIN counted : flow_slot(counted[k].id) = flow_slot(id) => counted[k].id = id

\* What the table says of a flow is traffic that there was: no more than what
\* came, in the flow or another that shares its slot, since the last snapshot
\* was begun, and for a flow with a slot to itself no less than what came from
\* the end of that snapshot to the beginning of this one.  However the words of
\* a slot are torn, answers overtake each other and flows collide.  (Packets
\* that are not IPv4 are left out: their ID is that of a slot not yet used.)
RowsAreTraffic ==
  \A t \in shown : \A id \in {counted[k].id : k \in DOMAIN counted} \ {NoTuple} :
    LET p == requests[t.prev]
        c == requests[t.cur]
        rows == {d \in t.rows : d.id = id}
    IN /\ \A d \in rows : /\ d.packets <= PacketsBetween(id, p.began, c.ended)
                          /\ d.bits <= BitsBetween(id, p.began, c.ended)
       /\ Alone(id) /\ PacketsBetween(id, 0, p.began) > 0 /\ PacketsBetween(id, p.ended, c.began) > 0 =>
            \E d \in rows : /\ d.packets >= PacketsBetween(id, p.ended, c.began)
                            /\ d.bits >= BitsBetween(id, p.ended, c.began)
=============================================================================
