-------------------------- MODULE NoteInboxProofs --------------------------
(***************************************************************************)
(* Proofs about NoteInbox for any number of processes, agents and notes,   *)
(* any options and any naming of the marker files.                         *)
(***************************************************************************)
EXTENDS NoteInbox, TLAPS

TypeOK ==
    /\ store \subseteq Notes
    /\ marker \in [Markers -> Nat]
    /\ pc \in [Procs -> {"idle", "bound", "newest", "open", "fill", "print"}]
    /\ agent \in [Procs -> Agents \cup {Nobody}]
    /\ mode \in [Procs -> Modes \cup {Nobody}]
    /\ listed \in [Procs -> SUBSET Notes]
    /\ bound \in [Procs -> Nat] /\ newest \in [Procs -> Nat]
    /\ seen \in [Agents -> SUBSET Notes] /\ excused \in [Agents -> SUBSET Notes]

(* A process that runs has an agent and its options, and lists notes that  *)
(* are here.                                                               *)
Running ==
    \A p \in Procs :
      /\ pc[p] # "idle" => agent[p] \in Agents /\ mode[p] \in Modes
      /\ listed[p] \subseteq store
      /\ pc[p] \in {"open", "fill"} => ~mode[p].peek

(* A note that a process has not listed has come after those it has.       *)
Late ==
    \A p \in Procs : \A n \in store \ listed[p], k \in listed[p] :
       k.at >= n.at => \A a \in Agents : n \in excused[a]

(* The notes to an agent that were neither shown to it nor excused. *)
Unread(a) ==
    {n \in store : Addressed(n, a) /\ n.from # a /\ n \notin seen[a] \cup excused[a]}

(* Process p is about to show the note n to agent a, or to leave it behind. *)
Windowed(p) == ~mode[p].all /\ mode[p].since # NoSince
Shows(p, a, n) ==
    /\ pc[p] = "print" /\ ~mode[p].peek /\ agent[p] = a
    /\ n \in listed[p] /\ (n.at > bound[p] \/ Windowed(p))

(* The agents and the times up to which they may be taken to have read: 0  *)
(* or the time of a note that is here, every unread note up to which is    *)
(* about to be shown.                                                      *)
Backed(a, t) ==
    t # 0 => \E n \in store : n.at = t
                /\ \E b \in Agents : MarkerOf[b] = MarkerOf[a] /\ Addressed(n, b)
ReadUpTo(a, t) ==
    \A n \in Unread(a) : n.at <= t => \E p \in Procs : Shows(p, a, n)
Settled == {x \in Agents \X Nat : Backed(x[1], x[2]) /\ ReadUpTo(x[1], x[2])}

MarkerInv == \A a \in Agents : <<a, marker[MarkerOf[a]]>> \in Settled

(* The bound of a process is that of its options, or a time up to which    *)
(* its agent has read; what it will write to the marker is such a time, or *)
(* that of a note it has listed.                                           *)
BoundInv ==
    \A p \in Procs : pc[p] \in {"newest", "open", "fill", "print"} =>
       \/ mode[p].all /\ bound[p] = 0
       \/ Windowed(p) /\ bound[p] = mode[p].since
       \/ /\ ~mode[p].all /\ mode[p].since = NoSince
          /\ <<agent[p], bound[p]>> \in Settled

NewestInv ==
    \A p \in Procs : pc[p] \in {"open", "fill"} =>
       \/ <<agent[p], newest[p]>> \in Settled
       \/ \E k \in listed[p] : k.at = newest[p] /\ Addressed(k, agent[p])

InboxInv == TypeOK /\ Running /\ Late /\ MarkerInv /\ BoundInv /\ NewestInv

----------------------------------------------------------------------------
(* Where a time comes from: markers, options and notes hold numbers. *)
LEMMA Constants ==
    /\ \A a \in Agents : MarkerOf[a] \in Markers
    /\ \A n \in Notes : n.at \in Nat /\ n.at > 0
    /\ \A m \in Modes : m.since # NoSince => m.since \in Nat
    /\ Nobody \notin Agents
BY InboxConstants DEF InboxConstants, Markers

LEMMA InitInv == Init => InboxInv
<1> SUFFICES ASSUME Init PROVE InboxInv
  OBVIOUS
<1> USE DEF Init
<1>1. TypeOK
  BY DEF TypeOK
<1>2. Running /\ Late /\ BoundInv /\ NewestInv
  BY DEF Running, Late, BoundInv, NewestInv
<1>3. MarkerInv
  BY Constants DEF MarkerInv, Settled, Backed, ReadUpTo, Unread
<1> QED
  BY <1>1, <1>2, <1>3 DEF InboxInv

(* How a step of process p may change the shared state and the others.     *)
Frame(p) ==
    /\ store' = store
    /\ \A a \in Agents : seen[a] \subseteq seen'[a] /\ excused[a] \subseteq excused'[a]
    /\ \A q \in Procs \ {p} :
          /\ pc'[q] = pc[q] /\ agent'[q] = agent[q] /\ mode'[q] = mode[q]
          /\ listed'[q] = listed[q] /\ bound'[q] = bound[q] /\ newest'[q] = newest[q]

(* What was read stays read when process p takes a step, if what it was    *)
(* about to show is shown or excused.                                      *)
LEMMA SettledByProcess ==
    ASSUME TypeOK, NEW p \in Procs, Frame(p),
           \A a \in Agents : \A n \in Unread(a) :
              Shows(p, a, n) => n \in seen'[a] \cup excused'[a]
    PROVE  Settled \subseteq Settled'
<1>1. ASSUME NEW a \in Agents, NEW t \in Nat, Backed(a, t) PROVE Backed(a, t)'
  BY <1>1 DEF Frame, Backed
<1>2. \A a \in Agents : Unread(a)' \subseteq Unread(a)
  BY DEF Frame, Unread
<1>3. ASSUME NEW a \in Agents, NEW t \in Nat, ReadUpTo(a, t) PROVE ReadUpTo(a, t)'
  <2>1. SUFFICES ASSUME NEW n \in Unread(a)', n.at <= t
                 PROVE  \E q \in Procs : Shows(q, a, n)'
    BY DEF ReadUpTo
  <2>2. n \in Unread(a) /\ n \notin seen'[a] \cup excused'[a]
    BY <1>2, <2>1 DEF Unread
  <2>3. PICK q \in Procs : Shows(q, a, n)
    BY <1>3, <2>1, <2>2 DEF ReadUpTo
  <2>4. q # p
    BY <2>2, <2>3
  <2> QED
    BY <2>3, <2>4 DEF Frame, Shows, Windowed
<1> QED
  BY <1>1, <1>3 DEF Settled

(* What is left to show after a step of process p: the facts about p, and  *)
(* about the marker it may have written.                                   *)
LEMMA OthersKeep ==
    ASSUME InboxInv, TypeOK', NEW p \in Procs, Frame(p), Settled \subseteq Settled',
           pc'[p] # "idle" => agent'[p] \in Agents /\ mode'[p] \in Modes,
           listed'[p] \subseteq store,
           pc'[p] \in {"open", "fill"} => ~mode'[p].peek
    PROVE  /\ Running'
           /\ listed'[p] \in {listed[p], {}, store} => Late'
           /\ \A a \in Agents : marker'[MarkerOf[a]] = marker[MarkerOf[a]] =>
                <<a, marker'[MarkerOf[a]]>> \in Settled'
           /\ \A q \in Procs \ {p} :
                /\ pc'[q] \in {"newest", "open", "fill", "print"} =>
                     \/ mode'[q].all /\ bound'[q] = 0
                     \/ Windowed(q)' /\ bound'[q] = mode'[q].since
                     \/ /\ ~mode'[q].all /\ mode'[q].since = NoSince
                        /\ <<agent'[q], bound'[q]>> \in Settled'
                /\ pc'[q] \in {"open", "fill"} =>
                     \/ <<agent'[q], newest'[q]>> \in Settled'
                     \/ \E k \in listed'[q] : k.at = newest'[q] /\ Addressed(k, agent'[q])
<1>1. Running'
  BY DEF Running, Frame, InboxInv
<1>2. listed'[p] \in {listed[p], {}, store} => Late'
  BY DEF Late, Frame, InboxInv
<1>3. \A a \in Agents : marker'[MarkerOf[a]] = marker[MarkerOf[a]] =>
         <<a, marker'[MarkerOf[a]]>> \in Settled'
  BY DEF InboxInv, MarkerInv
<1>4. ASSUME NEW q \in Procs \ {p}, pc'[q] \in {"newest", "open", "fill", "print"}
      PROVE  \/ mode'[q].all /\ bound'[q] = 0
             \/ Windowed(q)' /\ bound'[q] = mode'[q].since
             \/ /\ ~mode'[q].all /\ mode'[q].since = NoSince
                /\ <<agent'[q], bound'[q]>> \in Settled'
  BY <1>4 DEF InboxInv, BoundInv, Frame, Windowed
<1>5. ASSUME NEW q \in Procs \ {p}, pc'[q] \in {"open", "fill"}
      PROVE  \/ <<agent'[q], newest'[q]>> \in Settled'
             \/ \E k \in listed'[q] : k.at = newest'[q] /\ Addressed(k, agent'[q])
  BY <1>5 DEF InboxInv, NewestInv, Frame
<1> QED
  BY <1>1, <1>2, <1>3, <1>4, <1>5

----------------------------------------------------------------------------
(* The steps of a process, one by one. *)
LEMMA StartInboxKeeps ==
    ASSUME InboxInv, NEW p \in Procs, NEW a \in Agents, NEW m \in Modes, StartInbox(p, a, m)
    PROVE  InboxInv'
<1> USE DEF StartInbox, Goto, shared
<1>1. TypeOK /\ TypeOK'
  BY DEF InboxInv, TypeOK
<1>2. Frame(p)
  BY <1>1 DEF Frame, TypeOK
<1>3. Settled \subseteq Settled'
  BY <1>1, <1>2, SettledByProcess DEF Shows
<1>4. /\ pc'[p] = "bound" /\ agent'[p] = a /\ mode'[p] = m /\ listed'[p] = store
      /\ marker' = marker
  BY <1>1 DEF TypeOK
<1>5. Running' /\ Late' /\ MarkerInv'
  BY <1>1, <1>2, <1>3, <1>4, OthersKeep DEF MarkerInv
<1>6. BoundInv'
  BY <1>1, <1>2, <1>3, <1>4, OthersKeep DEF BoundInv
<1>7. NewestInv'
  BY <1>1, <1>2, <1>3, <1>4, OthersKeep DEF NewestInv
<1> QED
  BY <1>1, <1>5, <1>6, <1>7 DEF InboxInv

LEMMA ReadBoundKeeps ==
    ASSUME InboxInv, NEW p \in Procs, ReadBound(p)
    PROVE  InboxInv'
<1> USE DEF ReadBound, Goto, shared
<1>1. TypeOK /\ agent[p] \in Agents /\ mode[p] \in Modes /\ MarkerOf[agent[p]] \in Markers
  BY Constants DEF InboxInv, Running
<1>2. /\ pc'[p] = "newest" /\ agent' = agent /\ mode' = mode /\ listed' = listed
      /\ marker' = marker
      /\ \/ mode[p].all /\ bound'[p] = 0
         \/ Windowed(p) /\ bound'[p] = mode[p].since
         \/ ~mode[p].all /\ mode[p].since = NoSince /\ bound'[p] = marker[MarkerOf[agent[p]]]
  BY <1>1 DEF TypeOK, Windowed, File
<1>3. bound'[p] \in Nat
  BY <1>1, <1>2, Constants DEF TypeOK, Windowed
<1>4. TypeOK'
  BY <1>1, <1>3 DEF TypeOK
<1>5. Frame(p)
  BY <1>1 DEF Frame, TypeOK
<1>6. Settled \subseteq Settled'
  BY <1>1, <1>5, SettledByProcess DEF Shows
<1>7. listed[p] \subseteq store
  BY DEF InboxInv, Running
<1>8. Running' /\ Late' /\ MarkerInv'
  BY <1>1, <1>2, <1>4, <1>5, <1>6, <1>7, OthersKeep DEF MarkerInv
<1>9. <<agent[p], marker[MarkerOf[agent[p]]]>> \in Settled'
  BY <1>1, <1>6 DEF InboxInv, MarkerInv
<1>10. BoundInv'
  BY <1>1, <1>2, <1>4, <1>5, <1>6, <1>7, <1>9, OthersKeep DEF BoundInv, Windowed
<1>11. NewestInv'
  BY <1>1, <1>2, <1>4, <1>5, <1>6, <1>7, OthersKeep DEF NewestInv
<1> QED
  BY <1>4, <1>8, <1>10, <1>11 DEF InboxInv

LEMMA ReadNewestKeeps ==
    ASSUME InboxInv, NEW p \in Procs, ReadNewest(p)
    PROVE  InboxInv'
<1> USE DEF ReadNewest, Goto, shared
<1>1. /\ TypeOK /\ agent[p] \in Agents /\ mode[p] \in Modes
      /\ MarkerOf[agent[p]] \in Markers /\ listed[p] \subseteq store
  BY Constants DEF InboxInv, Running
<1>2. PICK t \in Times(p) : newest' = [newest EXCEPT ![p] = t]
  OBVIOUS
<1>3. \/ t = marker[MarkerOf[agent[p]]]
      \/ \E k \in listed[p] : k.at = t /\ Addressed(k, agent[p])
  BY DEF Times, File
<1>4. t \in Nat
  BY <1>1, <1>3, Constants DEF TypeOK
<1>5. /\ pc'[p] = (IF mode[p].peek THEN "print" ELSE "open")
      /\ agent' = agent /\ mode' = mode /\ listed' = listed /\ bound' = bound
      /\ newest'[p] = t /\ marker' = marker
  BY <1>1, <1>2 DEF TypeOK
<1>6. TypeOK'
  BY <1>1, <1>2, <1>4 DEF TypeOK
<1>7. Frame(p)
  BY <1>1 DEF Frame, TypeOK
<1>8. Settled \subseteq Settled'
  BY <1>1, <1>7, SettledByProcess DEF Shows
<1>9. Running' /\ Late' /\ MarkerInv'
  BY <1>1, <1>5, <1>6, <1>7, <1>8, OthersKeep DEF MarkerInv
<1>10. BoundInv'
  BY <1>5, <1>1, <1>6, <1>7, <1>8, OthersKeep DEF BoundInv, Windowed, InboxInv
<1>11. NewestInv'
  <2>1. \/ <<agent[p], t>> \in Settled'
        \/ \E k \in listed[p] : k.at = t /\ Addressed(k, agent[p])
    BY <1>1, <1>3, <1>8 DEF InboxInv, MarkerInv
  <2> QED
    BY <2>1, <1>1, <1>5, <1>7, <1>8 DEF NewestInv, InboxInv, Frame
<1> QED
  BY <1>6, <1>9, <1>10, <1>11 DEF InboxInv

LEMMA OpenMarkerKeeps ==
    ASSUME InboxInv, NEW p \in Procs, OpenMarker(p)
    PROVE  InboxInv'
<1> USE DEF OpenMarker, Goto, shared
<1>1. /\ TypeOK /\ agent[p] \in Agents /\ mode[p] \in Modes
      /\ MarkerOf[agent[p]] \in Markers /\ listed[p] \subseteq store /\ ~mode[p].peek
  BY Constants DEF InboxInv, Running
<1>2. /\ pc'[p] = "fill" /\ agent' = agent /\ mode' = mode /\ listed' = listed
      /\ bound' = bound /\ newest' = newest
  BY <1>1 DEF TypeOK
<1>3. TypeOK'
  BY <1>1 DEF TypeOK
<1>4. Frame(p)
  BY <1>1 DEF Frame, TypeOK
<1>5. Settled \subseteq Settled'
  BY <1>1, <1>4, SettledByProcess DEF Shows
<1>6. \A a \in Agents : <<a, 0>> \in Settled'
  BY <1>3, Constants DEF Settled, Backed, ReadUpTo, Unread, TypeOK
<1>7. \A a \in Agents : marker'[MarkerOf[a]] \in {0, marker[MarkerOf[a]]}
  BY <1>1, Constants DEF TypeOK, File
<1>8. Running' /\ Late' /\ MarkerInv'
  BY <1>1, <1>2, <1>3, <1>4, <1>5, <1>6, <1>7, OthersKeep DEF MarkerInv
<1>9. BoundInv'
  BY <1>1, <1>2, <1>3, <1>4, <1>5, OthersKeep DEF BoundInv, Windowed, InboxInv
<1>10. NewestInv'
  BY <1>1, <1>2, <1>3, <1>4, <1>5, OthersKeep DEF NewestInv, InboxInv
<1> QED
  BY <1>3, <1>8, <1>9, <1>10 DEF InboxInv

(* What FillMarker may write is a time up to which every agent of the file *)
(* has read: the namesakes are excused, and the agent of the process is    *)
(* about to be shown what it has listed.                                   *)
LEMMA FilledIsSettled ==
    ASSUME InboxInv, TypeOK', NEW p \in Procs, FillMarker(p), Frame(p),
           Settled \subseteq Settled',
           NEW a \in Agents, MarkerOf[a] = MarkerOf[agent[p]]
    PROVE  <<a, newest[p]>> \in Settled'
<1> DEFINE t == newest[p]
<1>1. /\ TypeOK /\ agent[p] \in Agents /\ mode[p] \in Modes
      /\ listed[p] \subseteq store /\ ~mode[p].peek /\ pc[p] = "fill" /\ t \in Nat
  BY DEF InboxInv, Running, TypeOK, FillMarker
<1>2. /\ pc'[p] = "print" /\ agent' = agent /\ mode' = mode /\ listed' = listed
      /\ bound' = bound /\ newest' = newest /\ store' = store /\ seen' = seen
      /\ \A b \in Agents \ {agent[p]} : MarkerOf[b] = MarkerOf[agent[p]] =>
           excused'[b] = excused[b] \cup {n \in store : n.at <= t}
  BY <1>1 DEF FillMarker, Goto, TypeOK, Namesakes, File
<1>3. \/ <<agent[p], t>> \in Settled
      \/ \E k \in listed[p] : k.at = t /\ Addressed(k, agent[p])
  BY <1>1 DEF InboxInv, NewestInv
<1>4. Backed(a, t)'
  BY <1>1, <1>2, <1>3 DEF Backed, Settled
<1>5. CASE a # agent[p]
  <2>1. ReadUpTo(a, t)'
    <3>1. SUFFICES ASSUME NEW n \in Unread(a)', n.at <= newest[p] PROVE FALSE
      BY <1>2 DEF ReadUpTo
    <3>2. n \in store /\ n \notin excused'[a]
      BY <1>2, <3>1 DEF Unread
    <3> QED
      BY <1>2, <1>5, <3>1, <3>2
  <2> QED
    BY <1>1, <1>2, <1>4, <2>1 DEF Settled
<1>6. CASE a = agent[p] /\ <<agent[p], t>> \in Settled
  BY <1>6
<1>7. CASE a = agent[p] /\ \E k \in listed[p] : k.at = t
  <2>1. SUFFICES ASSUME NEW n \in Unread(a)', n.at <= t
                 PROVE  \E q \in Procs : Shows(q, a, n)'
    BY <1>1, <1>2, <1>4 DEF Settled, ReadUpTo
  <2>2. n \in store /\ n \notin excused'[a] /\ n \in Notes /\ n.at \in Nat /\ n.at > 0
    BY <1>1, <1>2, <2>1, Constants DEF Unread, TypeOK
  <2>3. n \in listed[p]
    BY <1>7, <2>1, <2>2 DEF InboxInv, Late, Frame
  <2>4. CASE n.at > bound[p] \/ Windowed(p)
    BY <1>1, <1>2, <1>7, <2>3, <2>4 DEF Shows, Windowed
  <2>5. CASE n.at <= bound[p] /\ ~Windowed(p)
    <3>1. <<agent[p], bound[p]>> \in Settled
      BY <1>1, <2>2, <2>5 DEF InboxInv, BoundInv
    <3>2. ReadUpTo(a, bound[p])'
      BY <1>7, <1>2, <3>1 DEF Settled
    <3> QED
      BY <3>2, <2>1, <2>5, <1>2 DEF ReadUpTo
  <2> QED
    BY <1>1, <2>2, <2>4, <2>5 DEF TypeOK
<1> QED
  BY <1>3, <1>5, <1>6, <1>7

LEMMA FillMarkerKeeps ==
    ASSUME InboxInv, NEW p \in Procs, FillMarker(p)
    PROVE  InboxInv'
<1> USE DEF FillMarker, Goto, shared
<1>1. /\ TypeOK /\ agent[p] \in Agents /\ mode[p] \in Modes
      /\ MarkerOf[agent[p]] \in Markers /\ listed[p] \subseteq store
  BY Constants DEF InboxInv, Running
<1>2. /\ pc'[p] = "print" /\ agent' = agent /\ mode' = mode /\ listed' = listed
      /\ bound' = bound /\ newest' = newest
  BY <1>1 DEF TypeOK
<1>3. PICK t \in {0, newest[p]} : marker' = [marker EXCEPT ![File(p)] = t]
  OBVIOUS
<1>4. TypeOK'
  <2>1. t \in Nat
    BY <1>1, <1>3 DEF TypeOK
  <2>2. marker' \in [Markers -> Nat]
    <3> HIDE DEF FillMarker
    <3> QED
      BY <1>1, <1>3, <2>1 DEF TypeOK
  <2>3. excused' \in [Agents -> SUBSET Notes]
    <3>1. {n \in store : n.at <= newest[p]} \in SUBSET Notes
      BY <1>1 DEF TypeOK
    <3> DEFINE passed == {n \in store : n.at <= newest[p]}
    <3> HIDE DEF passed
    <3>2. \A a \in Agents : excused[a] \cup passed \in SUBSET Notes /\ excused[a] \in SUBSET Notes
      BY <1>1, <3>1 DEF TypeOK, passed
    <3>3. excused' = [a \in Agents |-> IF a \in Namesakes(p) THEN excused[a] \cup passed
                                      ELSE excused[a]]
      BY DEF passed
    <3> HIDE DEF FillMarker
    <3> QED
      BY <3>2, <3>3
  <2> QED
    BY <1>1, <2>2, <2>3 DEF TypeOK
<1>5. Frame(p)
  BY <1>1 DEF Frame, TypeOK
<1>6. Settled \subseteq Settled'
  BY <1>1, <1>5, SettledByProcess DEF Shows
<1>7. \A a \in Agents : <<a, 0>> \in Settled'
  BY <1>4, Constants DEF Settled, Backed, ReadUpTo, Unread, TypeOK
<1>8. \A a \in Agents : MarkerOf[a] = MarkerOf[agent[p]] => <<a, newest[p]>> \in Settled'
  BY <1>4, <1>5, <1>6, FilledIsSettled
<1>9. \A a \in Agents : marker'[MarkerOf[a]] =
         IF MarkerOf[a] = MarkerOf[agent[p]] THEN t ELSE marker[MarkerOf[a]]
  BY <1>1, <1>3, Constants DEF TypeOK, File
<1>10. Running' /\ Late'
  BY <1>1, <1>2, <1>4, <1>5, <1>6, OthersKeep
<1>11. MarkerInv'
  <2> SUFFICES ASSUME NEW a \in Agents PROVE <<a, marker'[MarkerOf[a]]>> \in Settled'
    BY DEF MarkerInv
  <2>1. CASE MarkerOf[a] = MarkerOf[agent[p]]
    BY <2>1, <1>3, <1>7, <1>8, <1>9
  <2>2. CASE MarkerOf[a] # MarkerOf[agent[p]]
    BY <2>2, <1>6, <1>9 DEF InboxInv, MarkerInv
  <2> QED
    BY <2>1, <2>2
<1>12. BoundInv'
  BY <1>1, <1>2, <1>4, <1>5, <1>6, OthersKeep DEF BoundInv, Windowed, InboxInv
<1>13. NewestInv'
  BY <1>1, <1>2, <1>4, <1>5, <1>6, OthersKeep DEF NewestInv
<1> QED
  BY <1>4, <1>10, <1>11, <1>12, <1>13 DEF InboxInv

(* What a marking inbox was about to show is in its report, or before its  *)
(* window and left behind.                                                 *)
LEMMA ShownOrLeft ==
    ASSUME InboxInv, NEW p \in Procs, NEW a \in Agents, NEW n \in Unread(a), Shows(p, a, n),
           NEW died
    PROVE  /\ agent[p] = a
           /\ n \in Matched(p) \/ n \in LeftBehind(p, died)
           /\ n \in LeftBehind(p, TRUE)
<1>1. /\ agent[p] = a /\ n \in listed[p] /\ pc[p] = "print" /\ ~mode[p].peek
      /\ Addressed(n, agent[p]) /\ n.from # agent[p] /\ n.at \in Nat /\ bound[p] \in Nat
  BY Constants DEF Shows, Unread, InboxInv, TypeOK
<1>2. CASE n.at > bound[p]
  <2>1. n \in Matched(p)
    BY <1>1, <1>2 DEF Matched
  <2> QED
    BY <1>1, <2>1 DEF LeftBehind
<1>3. CASE Windowed(p) /\ n.at <= bound[p]
  <2>1. n.at <= mode[p].since
    BY <1>1, <1>3 DEF InboxInv, BoundInv, Windowed
  <2> QED
    BY <1>1, <1>3, <2>1 DEF LeftBehind, Windowed
<1>4. n.at > bound[p] \/ (Windowed(p) /\ n.at <= bound[p])
  BY <1>1 DEF Shows
<1> QED
  BY <1>2, <1>3, <1>4

LEMMA ExitKeeps ==
    ASSUME InboxInv, NEW p \in Procs, Exit(p), pc[p] # "idle",
           seen' \in [Agents -> SUBSET Notes], excused' \in [Agents -> SUBSET Notes],
           \A a \in Agents : seen[a] \subseteq seen'[a] /\ excused[a] \subseteq excused'[a],
           \A a \in Agents : \A n \in Unread(a) :
              Shows(p, a, n) => n \in seen'[a] \cup excused'[a]
    PROVE  InboxInv'
<1> USE DEF Exit, Goto, shared
<1>1. TypeOK /\ TypeOK'
  BY DEF InboxInv, TypeOK
<1>2. /\ pc'[p] = "idle" /\ listed'[p] = {} /\ marker' = marker /\ store' = store
  BY <1>1 DEF TypeOK
<1>3. Frame(p)
  BY <1>1 DEF Frame, TypeOK
<1>4. Settled \subseteq Settled'
  BY <1>1, <1>3, SettledByProcess
<1> HIDE DEF Exit
<1>5. Running' /\ Late' /\ MarkerInv'
  BY <1>1, <1>2, <1>3, <1>4, OthersKeep DEF MarkerInv
<1>6. BoundInv'
  BY <1>1, <1>2, <1>3, <1>4, OthersKeep DEF BoundInv
<1>7. NewestInv'
  BY <1>1, <1>2, <1>3, <1>4, OthersKeep DEF NewestInv
<1> QED
  BY <1>1, <1>5, <1>6, <1>7 DEF InboxInv

LEMMA LeftAreNotes ==
    ASSUME InboxInv, NEW p \in Procs, pc[p] # "idle", NEW died
    PROVE  /\ agent[p] \in Agents
           /\ Matched(p) \in SUBSET Notes /\ LeftBehind(p, died) \in SUBSET Notes
           /\ seen \in [Agents -> SUBSET Notes] /\ excused \in [Agents -> SUBSET Notes]
BY DEF InboxInv, Running, TypeOK, Matched, LeftBehind

LEMMA PrintReportKeeps ==
    ASSUME InboxInv, NEW p \in Procs, PrintReport(p)
    PROVE  InboxInv'
<1>1. pc[p] # "idle" /\ Exit(p)
  BY DEF PrintReport
<1>2. /\ seen' = [seen EXCEPT ![agent[p]] = @ \cup Matched(p)]
      /\ excused' = [excused EXCEPT ![agent[p]] = @ \cup LeftBehind(p, FALSE)]
  BY DEF PrintReport, Excuse
<1>3. seen' \in [Agents -> SUBSET Notes] /\ excused' \in [Agents -> SUBSET Notes]
  BY <1>1, <1>2, LeftAreNotes
<1>4. \A a \in Agents : seen[a] \subseteq seen'[a] /\ excused[a] \subseteq excused'[a]
  BY <1>1, <1>2, LeftAreNotes
<1>5. ASSUME NEW a \in Agents, NEW n \in Unread(a), Shows(p, a, n)
      PROVE  n \in seen'[a] \cup excused'[a]
  BY <1>1, <1>2, <1>5, LeftAreNotes, ShownOrLeft
<1> QED
  BY <1>1, <1>3, <1>4, <1>5, ExitKeeps

LEMMA KillKeeps ==
    ASSUME InboxInv, NEW p \in Procs, Kill(p)
    PROVE  InboxInv'
<1>1. pc[p] # "idle" /\ Exit(p)
  BY DEF Kill
<1>2. /\ seen' = seen
      /\ excused' = [excused EXCEPT ![agent[p]] = @ \cup LeftBehind(p, TRUE)]
  BY DEF Kill, Excuse
<1>3. seen' \in [Agents -> SUBSET Notes] /\ excused' \in [Agents -> SUBSET Notes]
  BY <1>1, <1>2, LeftAreNotes
<1>4. \A a \in Agents : seen[a] \subseteq seen'[a] /\ excused[a] \subseteq excused'[a]
  BY <1>1, <1>2, LeftAreNotes
<1>5. ASSUME NEW a \in Agents, NEW n \in Unread(a), Shows(p, a, n)
      PROVE  n \in seen'[a] \cup excused'[a]
  BY <1>1, <1>2, <1>5, LeftAreNotes, ShownOrLeft
<1> QED
  BY <1>1, <1>3, <1>4, <1>5, ExitKeeps

(* A note that lands behind what was read is late, and so excused. *)
LEMMA LandKeeps ==
    ASSUME InboxInv, NEW m \in Notes, Land(m)
    PROVE  InboxInv'
<1> USE DEF Land
<1>1. TypeOK /\ m.at \in Nat /\ m.at > 0
  BY Constants DEF InboxInv
<1>2. TypeOK'
  <2>1. excused' \in [Agents -> SUBSET Notes]
    BY <1>1 DEF TypeOK
  <2> QED
    BY <1>1, <2>1 DEF TypeOK
<1>3. /\ store' = store \cup {m} /\ UNCHANGED <<marker, pc, agent, mode, listed, bound, newest, seen>>
      /\ \A a \in Agents : excused[a] \subseteq excused'[a]
      /\ \A a \in Agents, k \in store : k.at >= m.at => m \in excused'[a]
  BY <1>1 DEF TypeOK
<1> HIDE DEF Land
<1>4. Settled \subseteq Settled'
  <2> SUFFICES ASSUME NEW a \in Agents, NEW t \in Nat, Backed(a, t), ReadUpTo(a, t)
               PROVE  Backed(a, t)' /\ ReadUpTo(a, t)'
    BY DEF Settled
  <2>1. Backed(a, t)'
    BY <1>3 DEF Backed
  <2>2. ASSUME NEW n \in Unread(a)', n.at <= t PROVE \E q \in Procs : Shows(q, a, n)'
    <3>1. CASE n = m
      <4>1. PICK k \in store : k.at = t
        BY <1>1, <2>2, <3>1 DEF Backed
      <4>2. m \in excused'[a]
        BY <1>3, <2>2, <3>1, <4>1
      <4> QED
        BY <2>2, <3>1, <4>2 DEF Unread
    <3>2. CASE n # m
      <4>1. n \in Unread(a)
        BY <1>3, <2>2, <3>2 DEF Unread
      <4> QED
        BY <1>3, <2>2, <4>1 DEF ReadUpTo, Shows, Windowed
    <3> QED
      BY <3>1, <3>2
  <2> QED
    BY <2>1, <2>2 DEF ReadUpTo
<1>5. Running' /\ MarkerInv'
  BY <1>3, <1>4 DEF InboxInv, Running, MarkerInv
<1>6. Late'
  <2> SUFFICES ASSUME NEW p \in Procs, NEW n \in store' \ listed'[p], NEW k \in listed'[p],
                      k.at >= n.at, NEW a \in Agents
               PROVE  n \in excused'[a]
    BY DEF Late
  <2>1. k \in store /\ k \in listed[p] /\ n \notin listed[p]
    BY <1>3 DEF InboxInv, Running
  <2> QED
    BY <1>3, <2>1 DEF InboxInv, Late
<1>7. BoundInv'
  BY <1>3, <1>4 DEF InboxInv, BoundInv, Windowed
<1>8. NewestInv'
  BY <1>3, <1>4 DEF InboxInv, NewestInv
<1> QED
  BY <1>2, <1>5, <1>6, <1>7, <1>8 DEF InboxInv

----------------------------------------------------------------------------
LEMMA StutterKeeps == InboxInv /\ UNCHANGED vars => InboxInv'
<1> SUFFICES ASSUME InboxInv, UNCHANGED vars PROVE InboxInv'
  OBVIOUS
<1> USE DEF vars, InboxInv
<1>1. TypeOK' /\ Running' /\ Late'
  BY DEF TypeOK, Running, Late
<1>2. Settled' = Settled
  BY DEF Settled, Backed, ReadUpTo, Unread, Shows, Windowed
<1>3. MarkerInv' /\ BoundInv' /\ NewestInv'
  BY <1>2 DEF MarkerInv, BoundInv, NewestInv, Windowed
<1> QED
  BY <1>1, <1>3

LEMMA StepKeeps == InboxInv /\ [Next]_vars => InboxInv'
<1> SUFFICES ASSUME InboxInv, [Next]_vars PROVE InboxInv'
  OBVIOUS
<1>1. ASSUME NEW p \in Procs, Inbox(p) PROVE InboxInv'
  BY <1>1, StartInboxKeeps, ReadBoundKeeps, ReadNewestKeeps, OpenMarkerKeeps,
     FillMarkerKeeps, PrintReportKeeps DEF Inbox
<1>2. ASSUME NEW p \in Procs, Kill(p) PROVE InboxInv'
  BY <1>2, KillKeeps
<1>3. ASSUME NEW n \in Notes, Land(n) PROVE InboxInv'
  BY <1>3, LandKeeps
<1>4. CASE UNCHANGED vars
  BY <1>4, StutterKeeps
<1> QED
  BY <1>1, <1>2, <1>3, <1>4 DEF Next

(* The invariant that the two below rest on: who has read up to where,     *)
(* whatever the inboxes of an agent and of its namesakes do at once.       *)
THEOREM InboxInvariant == Spec => []InboxInv
BY InitInv, StepKeeps, PTL DEF Spec

(* write_note_marker (run_note): racing inboxes, a marker file cut short   *)
(* and a killed process never push a marker past what the clone holds.     *)
THEOREM MarkersAreBacked == Spec => []MarkerBacked
<1>1. InboxInv => MarkerBacked
  <2> SUFFICES ASSUME InboxInv, NEW a \in Agents, marker[MarkerOf[a]] # 0
               PROVE  \E n \in store : n.at = marker[MarkerOf[a]]
                         /\ \E b \in Agents : MarkerOf[b] = MarkerOf[a] /\ Addressed(n, b)
    BY DEF MarkerBacked, Markers
  <2>1. Backed(a, marker[MarkerOf[a]])
    BY DEF InboxInv, MarkerInv, Settled
  <2> QED
    BY <2>1 DEF Backed
<1> QED
  BY <1>1, InboxInvariant, PTL

(* run_note, inbox: a note that was not shown and that the marker has      *)
(* passed is one of the four kinds that the code gives up; the races of    *)
(* the two reads and the two writes of the marker hide no other.           *)
THEOREM MissedNotesAreExcused == Spec => []MissedExcused
<1>1. ASSUME InboxInv PROVE MissedExcused
  <2> SUFFICES ASSUME \A p \in Procs : pc[p] = "idle",
                      NEW a \in Agents, NEW n \in Passed(a), n \notin seen[a] \cup excused[a]
               PROVE  FALSE
    BY DEF MissedExcused
  <2>1. n \in Unread(a) /\ n.at <= marker[MarkerOf[a]]
    BY DEF Passed, Unread
  <2>2. <<a, marker[MarkerOf[a]]>> \in Settled
    BY <1>1 DEF InboxInv, MarkerInv
  <2>3. PICK p \in Procs : Shows(p, a, n)
    BY <2>1, <2>2 DEF Settled, ReadUpTo
  <2> QED
    BY <2>3 DEF Shows
<1> QED
  BY <1>1, InboxInvariant, PTL
=============================================================================
