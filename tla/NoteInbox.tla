----------------------------- MODULE NoteInbox -----------------------------
(***************************************************************************)
(* `rickygit note inbox' (crates/rickydata-git-cli): what an agent is      *)
(* shown, and how its read marker moves, while notes land in the clone and *)
(* other inbox commands run.  A note becomes visible when its ref lands,   *)
(* which may be long after the time it carries: a pulled note was written  *)
(* elsewhere, and a sent one is stamped before it is stored.               *)
(***************************************************************************)
EXTENDS Naturals

CONSTANTS
    Procs,      \* rickygit processes in the clone
    Agents,     \* names of the agents that read notes in the clone
    Everyone,   \* the recipient "all"
    Notes,      \* the notes that may land: [from, to, at]
    Modes,      \* the options used: [peek, all, self, since]
    Nobody,     \* the agent and the options of a process that is idle
    NoSince,    \* --since-ms is not given
    MarkerOf    \* [Agents -> marker file]: sanitize_agent_filename

Addressed(n, a) == n.to \in {a, Everyone}

ASSUME InboxConstants ==
    /\ {Everyone, Nobody} \cap Agents = {}
    /\ \A n \in Notes : n.at \in Nat \ {0}
    /\ \A m \in Modes : /\ m.peek \in BOOLEAN /\ m.all \in BOOLEAN
                        /\ m.self \in BOOLEAN
                        /\ m.since \in Nat \cup {NoSince}

Markers == {MarkerOf[a] : a \in Agents}

VARIABLES
    store,      \* the notes that are ref-backed in this clone
    marker,     \* [Markers -> Nat]; 0 is a missing or unreadable file
    pc, agent, mode,
    listed,     \* the notes that list_notes returned
    bound,      \* lower_bound; 0 is none, for note times are positive
    newest,     \* newest_addressed
    seen,       \* history: [Agents -> the notes printed for the agent]
    excused     \* history: [Agents -> the notes it may never be shown]

shared == <<store, marker>>
vars == <<store, marker, pc, agent, mode, listed, bound, newest, seen, excused>>

Init ==
    /\ store = {}
    /\ marker = [f \in Markers |-> 0]
    /\ pc = [p \in Procs |-> "idle"]
    /\ agent = [p \in Procs |-> Nobody]
    /\ mode = [p \in Procs |-> Nobody]
    /\ listed = [p \in Procs |-> {}]
    /\ bound = [p \in Procs |-> 0]
    /\ newest = [p \in Procs |-> 0]
    /\ seen = [a \in Agents |-> {}]
    /\ excused = [a \in Agents |-> {}]

File(p) == MarkerOf[agent[p]]
Goto(p, l) == pc' = [pc EXCEPT ![p] = l]

----------------------------------------------------------------------------
(* list_notes: the notes in the clone at this moment *)
StartInbox(p, a, m) ==
    /\ pc[p] = "idle"
    /\ Goto(p, "bound")
    /\ agent' = [agent EXCEPT ![p] = a]
    /\ mode' = [mode EXCEPT ![p] = m]
    /\ listed' = [listed EXCEPT ![p] = store]
    /\ UNCHANGED <<shared, bound, newest, seen, excused>>

(* The display window starts at --since-ms or at the marker. *)
ReadBound(p) ==
    /\ pc[p] = "bound"
    /\ bound' = [bound EXCEPT ![p] =
          CASE mode[p].all -> 0
            [] ~mode[p].all /\ mode[p].since # NoSince -> mode[p].since
            [] OTHER -> marker[File(p)]]
    /\ Goto(p, "newest")
    /\ UNCHANGED <<shared, agent, mode, listed, newest, seen, excused>>

(* Mutant: every note counts, not only those addressed to the agent. *)
TimesOfAll(p) == {marker[File(p)]} \cup {n.at : n \in listed[p]}

(* The marker is read again, for the newest note addressed to the agent    *)
(* (its own notes to "all" included).                                      *)
Times(p) == {marker[File(p)]} \cup
            {n.at : n \in {k \in listed[p] : Addressed(k, agent[p])}}

ReadNewest(p) ==
    /\ pc[p] = "newest"
    /\ \E t \in Times(p) :
         /\ \A k \in Times(p) : k <= t
         /\ newest' = [newest EXCEPT ![p] = t]
    /\ Goto(p, IF mode[p].peek THEN "print" ELSE "open")
    /\ UNCHANGED <<shared, agent, mode, listed, bound, seen, excused>>

(* write_note_marker: fs::write truncates the file ... *)
OpenMarker(p) ==
    /\ pc[p] = "open"
    /\ marker' = [marker EXCEPT ![File(p)] = 0]
    /\ Goto(p, "fill")
    /\ UNCHANGED <<store, agent, mode, listed, bound, newest, seen, excused>>

(* The other agents whose names sanitize to the same file name. *)
Namesakes(p) == {a \in Agents \ {agent[p]} : MarkerOf[a] = File(p)}

(* ... and fills it; over other bytes the result may not parse.  History:  *)
(* what the agents of the same file have not read by now is passed too.    *)
FillMarker(p) ==
    /\ pc[p] = "fill"
    /\ \E t \in {newest[p]} \cup
                (IF marker[File(p)] \in {0, newest[p]} THEN {} ELSE {0}) :
         marker' = [marker EXCEPT ![File(p)] = t]
    /\ excused' = [a \in Agents |-> IF a \in Namesakes(p)
                      THEN excused[a] \cup {n \in store : n.at <= newest[p]}
                      ELSE excused[a]]
    /\ Goto(p, "print")
    /\ UNCHANGED <<store, agent, mode, listed, bound, newest, seen>>

(* Mutant: the window starts one millisecond late. *)
MatchedLate(p) ==
    {n \in listed[p] : /\ Addressed(n, agent[p])
                       /\ n.from = agent[p] => mode[p].self
                       /\ n.at > bound[p] + 1}

(* The notes of the report: addressed to the agent, not its own, and       *)
(* later than the bound.                                                   *)
Matched(p) ==
    {n \in listed[p] : /\ Addressed(n, agent[p])
                       /\ n.from = agent[p] => mode[p].self
                       /\ n.at > bound[p]}

(* The process is gone, and what it held with it. *)
Exit(p) ==
    /\ Goto(p, "idle")
    /\ listed' = [listed EXCEPT ![p] = {}]
    /\ bound' = [bound EXCEPT ![p] = 0]
    /\ newest' = [newest EXCEPT ![p] = 0]
    /\ agent' = [agent EXCEPT ![p] = Nobody]
    /\ mode' = [mode EXCEPT ![p] = Nobody]
    /\ UNCHANGED shared

(* History: the notes that a marking inbox leaves behind, those before the *)
(* window of --since-ms and, when it dies past the marker, its report.     *)
LeftBehind(p, died) ==
    IF pc[p] # "print" \/ mode[p].peek THEN {}
    ELSE {n \in listed[p] : /\ ~mode[p].all /\ mode[p].since # NoSince
                            /\ n.at <= mode[p].since}
         \cup (IF died THEN Matched(p) ELSE {})

Excuse(p, died) ==
    excused' = [excused EXCEPT ![agent[p]] = @ \cup LeftBehind(p, died)]

(* The report is printed only after the marker has moved. *)
PrintReport(p) ==
    /\ pc[p] = "print"
    /\ seen' = [seen EXCEPT ![agent[p]] = @ \cup Matched(p)]
    /\ Excuse(p, FALSE)
    /\ Exit(p)

Kill(p) ==
    /\ pc[p] # "idle"
    /\ Excuse(p, TRUE)
    /\ Exit(p)
    /\ UNCHANGED seen

(* A note lands: note send, sync pull or relay pull created its ref.  It   *)
(* is late when the clone already holds a note that is not older.          *)
Land(n) ==
    /\ n \notin store
    /\ store' = store \cup {n}
    /\ excused' = IF \E k \in store : k.at >= n.at
                    THEN [a \in Agents |-> excused[a] \cup {n}]
                    ELSE excused
    /\ UNCHANGED <<marker, pc, agent, mode, listed, bound, newest, seen>>

----------------------------------------------------------------------------
Inbox(p) ==
    \/ \E a \in Agents, m \in Modes : StartInbox(p, a, m)
    \/ ReadBound(p) \/ ReadNewest(p) \/ OpenMarker(p) \/ FillMarker(p)
    \/ PrintReport(p)

Next ==
    \/ \E p \in Procs : Inbox(p) \/ Kill(p)
    \/ \E n \in Notes : Land(n)

Spec == Init /\ [][Next]_vars

----------------------------------------------------------------------------
(* Racing inboxes, torn marker files and late notes never push a marker    *)
(* past what the clone holds: it is 0 or the time of a note that is here   *)
(* and addressed to an agent of that marker.                               *)
MarkerBacked ==
    \A f \in Markers : marker[f] # 0 =>
        \E n \in store : n.at = marker[f]
            /\ \E a \in Agents : MarkerOf[a] = f /\ Addressed(n, a)

(* The notes that `note inbox' will skip from now on. *)
Passed(a) ==
    {n \in store : /\ Addressed(n, a) /\ n.from # a
                   /\ n.at <= marker[MarkerOf[a]]}

(* Racing inboxes and torn markers alone never hide a note.  One that was  *)
(* not shown and is passed came late, was left out by --since-ms, was in   *)
(* the report of an inbox that died after it moved the marker, or was      *)
(* passed by an agent whose name sanitizes to the same file name.          *)
MissedExcused ==
    (\A p \in Procs : pc[p] = "idle") =>
        \A a \in Agents : Passed(a) \subseteq seen[a] \cup excused[a]
=============================================================================
