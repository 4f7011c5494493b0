---------------------------- MODULE MCNoteInbox ----------------------------
(* TLC instance of NoteInbox: a note from elsewhere to a, one of a's own   *)
(* to everyone and one to an agent elsewhere; a and c have names that      *)
(* sanitize to one marker file.                                            *)
EXTENDS NoteInbox, TLC

CONSTANTS a, b, c, f

Note(x, y, t) == [from |-> x, to |-> y, at |-> t]
Mode(peek, all, self, since) ==
    [peek |-> peek, all |-> all, self |-> self, since |-> since]

MCNotes == {Note(b, a, 1), Note(a, Everyone, 2), Note(a, b, 3)}

Unread == Mode(FALSE, FALSE, FALSE, NoSince)
Peek   == Mode(TRUE, FALSE, TRUE, NoSince)
Since  == Mode(FALSE, FALSE, FALSE, 1)

MCModes == {Unread, Peek, Since}

MCMarkerOf == [x \in Agents |-> f]

Symmetry == Permutations(Procs)
=============================================================================
