---------------------------- MODULE StoreProofs ----------------------------
(***************************************************************************)
(* Proofs about ObjectStore and StoreInit for any number of processes,     *)
(* ids, wire forms and directories.                                        *)
(***************************************************************************)
EXTENDS ObjectStore, StoreInit, TLAPS

(* A process holds a file open exactly while it fills it, and the file is  *)
(* still linked where fd says.  Fill needs it to know what it overwrites.  *)
FdCoherent ==
    \A p \in Procs :
        /\ fd[p] # "none" <=> pc[p] = "fill"
        /\ fd[p] = "tmp" => tmp[req[p]] # None
        /\ fd[p] = "cache" => cache[req[p]] # None

(* Where a call may be. *)
OpCoherent ==
    \A p \in Procs :
        /\ pc[p] \in {"refcheck", "refcreate", "ack"} => op[p] = "write"
        /\ pc[p] \in {"lookup", "load", "readref"} => op[p] \in {"read", "verify"}
        /\ pc[p] \in {"vstat", "vload", "vref"} => op[p] = "verify"

(* An object on its way into the cache or a ref was checked against the    *)
(* requested id (object_field_diagnostics): RefCreate and Ack need it.     *)
Writing == {"stat", "compare", "open", "fill", "rename", "refcheck",
            "refcreate", "ack"}

CarriedAuthentic ==
    \A p \in Procs : pc[p] \in Writing => Intact(req[p], buf[p])

TypeInv == TypeOK /\ FdCoherent /\ OpCoherent /\ CarriedAuthentic

(* Every readable file under an id is an object with that id. *)
FilesAuthentic ==
    \A i \in Ids :
        /\ cache[i] \in Envelope => Intact(i, cache[i])
        /\ tmp[i] \in Envelope => Intact(i, tmp[i])

SyncInv == TypeInv /\ FilesAuthentic /\ ReadAuthentic

LEMMA InitTypeInv == Init => TypeInv
  BY StoreConstants
     DEF Init, TypeInv, TypeOK, FdCoherent, OpCoherent, CarriedAuthentic,
         Writing, File, Blob, Labels, Outcomes

LEMMA StartTypeInv ==
  ASSUME TypeInv, NEW p \in Procs, Start(p)
  PROVE  TypeInv'
<1> USE DEF TypeInv, TypeOK, FdCoherent, OpCoherent, CarriedAuthentic, Writing,
            Labels, Outcomes, disk
<1>1. AckedIds \subseteq Ids
  BY DEF AckedIds
<1>2. CASE \E e \in {f \in Envelope : f.claimed \in Ids} : StartWrite(p, e)
  BY <1>1, <1>2 DEF StartWrite, Begin, File
<1>3. CASE \E e \in {f \in Envelope : f.claimed \in Ids} : RejectWrite(p, e)
  BY <1>1, <1>3 DEF RejectWrite, Begin, File
<1>4. CASE \E i \in Ids : StartRead(p, i)
  BY <1>1, <1>4 DEF StartRead, Begin, File
<1>5. CASE \E i \in Ids : StartVerify(p, i)
  BY <1>1, <1>5 DEF StartVerify, Begin, File
<1> QED
  BY <1>2, <1>3, <1>4, <1>5 DEF Start

(* What a whole or a partial write through an open file may leave. *)
LEMMA OverwriteRange ==
  ASSUME NEW c \in File, NEW b \in File
  PROVE  /\ Overwrite(c, b) \subseteq {c, b, Garbled}
         /\ Partial(c, b) \subseteq {c, b, Garbled}
  BY DEF Overwrite, Partial

(* A write through an open file changes at most the file of its own id,    *)
(* never creates one, and leaves the carried object or garbled bytes.      *)
LEMMA WriteThroughEffect ==
  ASSUME TypeInv, NEW p \in Procs, pc[p] = "fill", NEW new,
         \A c \in File : new[c] \subseteq {c, buf[p], Garbled},
         WriteThrough(p, new)
  PROVE  /\ tmp' \in [Ids -> File \cup {None}]
         /\ cache' \in [Ids -> File \cup {None}]
         /\ \A i \in Ids :
              tmp'[i] # tmp[i] => /\ i = req[p] /\ tmp[i] # None
                                  /\ tmp'[i] \in {buf[p], Garbled}
         /\ \A i \in Ids :
              cache'[i] # cache[i] => /\ i = req[p] /\ cache[i] # None
                                      /\ cache'[i] \in {buf[p], Garbled}
<1> USE DEF TypeInv, TypeOK, FdCoherent
<1>1. {buf[p], Garbled} \subseteq File
  BY DEF File
<1>2. CASE fd[p] = "tmp"
  <2>1. tmp[req[p]] \in File
    BY <1>2
  <2>2. PICK c \in new[tmp[req[p]]] :
           tmp' = [tmp EXCEPT ![req[p]] = c] /\ UNCHANGED cache
    BY <1>2 DEF WriteThrough
  <2>3. c \in {tmp[req[p]], buf[p], Garbled}
    BY <2>1, <2>2
  <2> QED
    BY <1>1, <2>1, <2>2, <2>3, StoreConstants
<1>3. CASE fd[p] = "cache"
  <2>1. cache[req[p]] \in File
    BY <1>3
  <2>2. PICK c \in new[cache[req[p]]] :
           cache' = [cache EXCEPT ![req[p]] = c] /\ UNCHANGED tmp
    BY <1>3 DEF WriteThrough
  <2>3. c \in {cache[req[p]], buf[p], Garbled}
    BY <2>1, <2>2
  <2> QED
    BY <1>1, <2>1, <2>2, <2>3, StoreConstants
<1>4. CASE fd[p] = "gone"
  BY <1>4 DEF WriteThrough
<1> QED
  BY <1>2, <1>3, <1>4

(* Fill and Abort in terms of that lemma. *)
LEMMA FileWrite ==
  ASSUME TypeInv, NEW p \in Procs,
         Fill(p) \/ (Abort(p) /\ pc[p] = "fill")
  PROVE  /\ tmp' \in [Ids -> File \cup {None}]
         /\ cache' \in [Ids -> File \cup {None}]
         /\ \A i \in Ids :
              tmp'[i] # tmp[i] => /\ i = req[p] /\ tmp[i] # None
                                  /\ tmp'[i] \in {buf[p], Garbled}
         /\ \A i \in Ids :
              cache'[i] # cache[i] => /\ i = req[p] /\ cache[i] # None
                                      /\ cache'[i] \in {buf[p], Garbled}
<1> DEFINE whole == [c \in File |-> Overwrite(c, buf[p])]
           part  == [c \in File |-> Partial(c, buf[p])]
<1>1. buf[p] \in File
  BY DEF TypeInv, TypeOK
<1>2. \A c \in File :
         /\ whole[c] \subseteq {c, buf[p], Garbled}
         /\ part[c] \subseteq {c, buf[p], Garbled}
  BY <1>1, OverwriteRange
<1>3. pc[p] = "fill" /\ (WriteThrough(p, whole) \/ WriteThrough(p, part))
  BY DEF Fill, Abort
<1> HIDE DEF whole, part
<1> QED
  BY <1>2, <1>3, WriteThroughEffect

LEMMA StepTypeInv ==
  ASSUME TypeInv, NEW p \in Procs, Step(p)
  PROVE  TypeInv'
<1> USE DEF TypeInv, TypeOK, FdCoherent, OpCoherent, CarriedAuthentic, Writing,
            Labels, Outcomes, disk
<1>1. CASE Stat(p)
  BY <1>1 DEF Stat, Continue, Goto
<1>2. CASE Compare(p)
  BY <1>2 DEF Compare, Cached, Deliver, Return, Continue, Goto, Verdict
<1>3. CASE OpenTemp(p)
  BY <1>3, StoreConstants DEF OpenTemp, File
<1>4. CASE Fill(p)
  <2>1. \A i \in Ids :
           /\ tmp[i] # None => tmp'[i] # None
           /\ cache[i] # None => cache'[i] # None
    BY <1>4, FileWrite, StoreConstants DEF File
  <2>2. /\ tmp' \in [Ids -> File \cup {None}]
        /\ cache' \in [Ids -> File \cup {None}]
    BY <1>4, FileWrite
  <2>3. /\ pc' = [pc EXCEPT ![p] = "rename"] /\ fd' = [fd EXCEPT ![p] = "none"]
        /\ UNCHANGED <<refs, op, req, buf, out, acked, expects>>
        /\ pc[p] = "fill"
    BY <1>4 DEF Fill
  <2>4. TypeOK'
    BY <2>2, <2>3
  <2>5. FdCoherent'
    BY <2>1, <2>3
  <2>6. OpCoherent' /\ CarriedAuthentic'
    BY <2>3
  <2> QED
    BY <2>4, <2>5, <2>6
<1>5. CASE Rename(p)
  <2>1. CASE tmp[req[p]] = None
    BY <1>5, <2>1 DEF Rename, Return
  <2>2. CASE tmp[req[p]] # None
    BY <1>5, <2>2 DEF Rename, Relinked, Cached, Deliver, Return, Continue, Goto, Verdict
  <2> QED
    BY <2>1, <2>2
<1>6. CASE RefCheck(p)
  BY <1>6 DEF RefCheck, Return, Continue, Goto
<1>7. CASE RefCreate(p)
  BY <1>7 DEF RefCreate, Return, Continue, Goto, Intact, File, Blob
<1>8. CASE Ack(p)
  BY <1>8 DEF Ack, Return, Intact, File
<1>9. CASE Lookup(p)
  BY <1>9 DEF Lookup, Continue, Goto
<1>10. CASE Load(p)
  BY <1>10 DEF Load, Deliver, Return, Verdict, File
<1>11. CASE ReadRef(p)
  BY <1>11 DEF ReadRef, Return, Continue, Goto, Intact, File
<1>12. CASE VerifyStat(p)
  BY <1>12 DEF VerifyStat, Continue, Goto
<1>13. CASE VerifyLoad(p)
  BY <1>13 DEF VerifyLoad, Return, Continue, Goto, File
<1>14. CASE VerifyRef(p)
  BY <1>14 DEF VerifyRef, Return, Verdict
<1> QED
  BY <1>1, <1>2, <1>3, <1>4, <1>5, <1>6, <1>7, <1>8, <1>9, <1>10, <1>11,
     <1>12, <1>13, <1>14 DEF Step

LEMMA AroundTypeInv ==
  ASSUME TypeInv,
         \/ \E p \in Procs : Abort(p)
         \/ \E i \in Ids : DeleteCached(i)
         \/ \E i \in Ids, b \in Blob : Fetch(i, b)
         \/ UNCHANGED vars
  PROVE  TypeInv'
<1> USE DEF TypeInv, TypeOK, FdCoherent, OpCoherent, CarriedAuthentic, Writing,
            Labels, Outcomes
<1>1. ASSUME NEW p \in Procs, Abort(p), pc[p] = "fill"
      PROVE  TypeInv'
  <2>1. \A i \in Ids :
           /\ tmp[i] # None => tmp'[i] # None
           /\ cache[i] # None => cache'[i] # None
    BY <1>1, FileWrite, StoreConstants DEF File
  <2>2. /\ tmp' \in [Ids -> File \cup {None}]
        /\ cache' \in [Ids -> File \cup {None}]
    BY <1>1, FileWrite
  <2>3. /\ pc' = [pc EXCEPT ![p] = "idle"] /\ fd' = [fd EXCEPT ![p] = "none"]
        /\ out' = [out EXCEPT ![p] = "killed"]
        /\ UNCHANGED <<refs, op, req, buf, acked, expects>>
    BY <1>1 DEF Abort, Return
  <2>4. TypeOK'
    BY <2>2, <2>3
  <2>5. FdCoherent'
    BY <2>1, <2>3
  <2>6. OpCoherent' /\ CarriedAuthentic'
    BY <2>3
  <2> QED
    BY <2>4, <2>5, <2>6
<1>2. ASSUME NEW p \in Procs, Abort(p), pc[p] # "fill"
      PROVE  TypeInv'
  BY <1>2 DEF Abort, Return
<1>3. ASSUME NEW i \in Ids, DeleteCached(i)
      PROVE  TypeInv'
  BY <1>3 DEF DeleteCached
<1>4. ASSUME NEW i \in Ids, NEW b \in Blob, Fetch(i, b)
      PROVE  TypeInv'
  BY <1>4 DEF Fetch, local
<1>5. CASE UNCHANGED vars
  BY <1>5 DEF vars
<1> QED
  BY <1>1, <1>2, <1>3, <1>4, <1>5

LEMMA NextTypeInv == TypeInv /\ [NextSync]_vars => TypeInv'
  BY StartTypeInv, StepTypeInv, AroundTypeInv DEF NextSync, NextLocal

(* Type correctness of the store, fetching or not: no step of any process  *)
(* leaves a file, a ref or a process state outside its type.               *)
THEOREM TypeCorrect == SpecSync => []TypeOK
<1>1. Init => TypeInv
  BY InitTypeInv
<1>2. TypeInv /\ [NextSync]_vars => TypeInv'
  BY NextTypeInv
<1>3. TypeInv => TypeOK
  BY DEF TypeInv
<1> QED
  BY <1>1, <1>2, <1>3, PTL DEF SpecSync

----------------------------------------------------------------------------
(* Reads, in a clone that fetches.                                         *)

LEMMA NextFiles ==
  ASSUME TypeInv, FilesAuthentic, [NextSync]_vars
  PROVE  FilesAuthentic'
<1> USE DEF TypeInv, TypeOK, FilesAuthentic, disk
<1>1. ASSUME NEW p \in Procs, Fill(p) \/ (Abort(p) /\ pc[p] = "fill")
      PROVE  FilesAuthentic'
  <2>1. Intact(req[p], buf[p])
    BY <1>1 DEF Fill, CarriedAuthentic, Writing
  <2>2. \A i \in Ids :
           /\ tmp'[i] # tmp[i] => i = req[p] /\ tmp'[i] \in {buf[p], Garbled}
           /\ cache'[i] # cache[i] => i = req[p] /\ cache'[i] \in {buf[p], Garbled}
    BY <1>1, FileWrite
  <2> QED
    BY <2>1, <2>2, StoreConstants
<1>2. ASSUME NEW p \in Procs, OpenTemp(p)
      PROVE  FilesAuthentic'
  BY <1>2, StoreConstants DEF OpenTemp, Blob
<1>3. ASSUME NEW p \in Procs, Rename(p)
      PROVE  FilesAuthentic'
  BY <1>3, StoreConstants DEF Rename, File
<1>4. ASSUME NEW i \in Ids, DeleteCached(i)
      PROVE  FilesAuthentic'
  BY <1>4, StoreConstants DEF DeleteCached, File
<1>5. ASSUME NEW p \in Procs, Start(p)
      PROVE  FilesAuthentic'
  BY <1>5 DEF Start, StartWrite, RejectWrite, StartRead, StartVerify
<1>6. ASSUME NEW p \in Procs,
             \/ Stat(p) \/ Compare(p) \/ RefCheck(p) \/ RefCreate(p) \/ Ack(p)
             \/ Lookup(p) \/ Load(p) \/ ReadRef(p)
             \/ VerifyStat(p) \/ VerifyLoad(p) \/ VerifyRef(p)
      PROVE  FilesAuthentic'
  BY <1>6 DEF Stat, Compare, RefCheck, RefCreate, Ack, Lookup, Load, ReadRef,
              VerifyStat, VerifyLoad, VerifyRef
<1>7. ASSUME NEW p \in Procs, Abort(p), pc[p] # "fill"
      PROVE  FilesAuthentic'
  BY <1>7 DEF Abort
<1>8. ASSUME NEW i \in Ids, NEW b \in Blob, Fetch(i, b)
      PROVE  FilesAuthentic'
  BY <1>8 DEF Fetch
<1>9. CASE UNCHANGED vars
  BY <1>9 DEF vars
<1> QED
  BY <1>1, <1>2, <1>3, <1>4, <1>5, <1>6, <1>7, <1>8, <1>9
     DEF NextSync, NextLocal, Step

LEMMA NextReads ==
  ASSUME TypeInv, FilesAuthentic, ReadAuthentic, [NextSync]_vars
  PROVE  ReadAuthentic'
<1> USE DEF TypeInv, TypeOK, ReadAuthentic
<1>1. ASSUME NEW p \in Procs, Start(p)
      PROVE  ReadAuthentic'
  BY <1>1 DEF Start, StartWrite, RejectWrite, StartRead, StartVerify, Begin
<1>2. ASSUME NEW p \in Procs, Load(p)
      PROVE  ReadAuthentic'
  BY <1>2 DEF Load, Deliver, Return, FilesAuthentic
<1>3. ASSUME NEW p \in Procs, Compare(p) \/ Rename(p)
      PROVE  ReadAuthentic'
  <2>1. Intact(req[p], buf[p])
    BY <1>3 DEF Compare, Rename, CarriedAuthentic, Writing
  <2> QED
    BY <1>3, <2>1 DEF Compare, Rename, Cached, Deliver, Return, Continue, Goto
<1>4. ASSUME NEW p \in Procs,
             \/ Stat(p) \/ OpenTemp(p) \/ Fill(p) \/ Lookup(p) \/ VerifyStat(p)
      PROVE  ReadAuthentic'
  BY <1>4 DEF Stat, OpenTemp, Fill, Lookup, VerifyStat, Continue, Goto
<1>5. ASSUME NEW p \in Procs, RefCheck(p) \/ RefCreate(p) \/ Ack(p)
      PROVE  ReadAuthentic'
  BY <1>5 DEF RefCheck, RefCreate, Ack, Return, Continue, Goto, OpCoherent
<1>6. ASSUME NEW p \in Procs, ReadRef(p)
      PROVE  ReadAuthentic'
  BY <1>6 DEF ReadRef, Return, Continue, Goto
<1>7. ASSUME NEW p \in Procs, VerifyLoad(p) \/ VerifyRef(p)
      PROVE  ReadAuthentic'
  BY <1>7 DEF VerifyLoad, VerifyRef, Return, Continue, Goto, Verdict, OpCoherent
<1>8. ASSUME NEW p \in Procs, Abort(p)
      PROVE  ReadAuthentic'
  <2>1. out' = [out EXCEPT ![p] = "killed"] /\ UNCHANGED <<op, req, buf>>
    BY <1>8 DEF Abort, Return
  <2> QED
    BY <2>1
<1>9. CASE \/ \E i \in Ids : DeleteCached(i)
           \/ \E i \in Ids, b \in Blob : Fetch(i, b)
           \/ UNCHANGED vars
  BY <1>9 DEF DeleteCached, Fetch, local, vars
<1> QED
  BY <1>1, <1>2, <1>3, <1>4, <1>5, <1>6, <1>7, <1>8, <1>9
     DEF NextSync, NextLocal, Step

(* A successful read returns the object that was asked for, although       *)
(* read_object_from_cache_or_ref does not check cached files and although  *)
(* the remote may put any blob behind a fetched ref.                       *)
THEOREM ReadsAreAuthentic == SpecSync => []ReadAuthentic
<1>1. Init => SyncInv
  <2>1. Init => FilesAuthentic /\ ReadAuthentic
    BY StoreConstants DEF Init, FilesAuthentic, ReadAuthentic, File
  <2> QED
    BY <2>1, InitTypeInv DEF SyncInv
<1>2. SyncInv /\ [NextSync]_vars => SyncInv'
  BY NextTypeInv, NextFiles, NextReads DEF SyncInv
<1>3. SyncInv => ReadAuthentic
  BY DEF SyncInv
<1> QED
  BY <1>1, <1>2, <1>3, PTL DEF SpecSync

----------------------------------------------------------------------------
(* Refs and reports, in a clone that does not fetch.                       *)

(* Refs hold objects of their id.  A writer that is about to report has    *)
(* its object installed, and what was reported before a call began is      *)
(* installed while the call runs.                                          *)
RefsAuthentic == \A i \in Ids : refs[i] # None => Intact(i, refs[i])

AckInstalled ==
    \A p \in Procs : pc[p] = "ack" => refs[req[p]] = buf[p]

ExpectsInstalled ==
    \A p \in Procs : \A i \in expects[p] : refs[i] # None

RefInv == RefsAuthentic /\ AckInstalled /\ AckedDurable /\ ExpectsInstalled

LocalInv == TypeInv /\ RefInv /\ NoLostObject

(* How a step of a non-fetching clone may change refs and reports. *)
RefStep ==
    \/ UNCHANGED <<refs, acked>>
    \/ \E i \in Ids, e \in Envelope :
          /\ refs[i] = None /\ Intact(i, e)
          /\ refs' = [refs EXCEPT ![i] = e]
          /\ UNCHANGED acked
    \/ \E i \in Ids :
          /\ refs[i] # None
          /\ acked' = acked \cup {<<i, refs[i]>>}
          /\ UNCHANGED refs

LEMMA NextRefStep ==
  ASSUME TypeInv, AckInstalled, [NextLocal]_vars
  PROVE  RefStep
<1> USE DEF TypeInv, TypeOK
<1>1. ASSUME NEW p \in Procs, RefCreate(p)
      PROVE  RefStep
  <2>1. Intact(req[p], buf[p]) /\ buf[p] \in Envelope /\ req[p] \in Ids
    BY <1>1 DEF RefCreate, CarriedAuthentic, Writing, Intact
  <2>2. CASE UNCHANGED refs
    BY <1>1, <2>2 DEF RefCreate, RefStep
  <2>3. CASE refs' # refs
    <3>1. /\ refs[req[p]] = None /\ UNCHANGED acked
          /\ refs' = [refs EXCEPT ![req[p]] = buf[p]]
      BY <1>1, <2>3 DEF RefCreate
    <3> QED
      BY <2>1, <3>1 DEF RefStep
  <2> QED
    BY <2>2, <2>3
<1>2. ASSUME NEW p \in Procs, Ack(p)
      PROVE  RefStep
  <2>1. Intact(req[p], buf[p]) /\ buf[p] \in Envelope /\ req[p] \in Ids
    BY <1>2 DEF Ack, CarriedAuthentic, Writing, Intact
  <2>2. refs[req[p]] = buf[p] /\ refs[req[p]] # None
    BY <1>2, <2>1, StoreConstants DEF Ack, AckInstalled, File
  <2>3. acked' = acked \cup {<<req[p], refs[req[p]]>>} /\ UNCHANGED refs
    BY <1>2, <2>2 DEF Ack, disk
  <2> QED
    BY <2>1, <2>2, <2>3 DEF RefStep
<1>3. ASSUME NEW p \in Procs, Start(p)
      PROVE  RefStep
  BY <1>3 DEF Start, StartWrite, RejectWrite, StartRead, StartVerify, RefStep,
              disk
<1>4. ASSUME NEW p \in Procs,
             \/ Stat(p) \/ Compare(p) \/ OpenTemp(p) \/ Fill(p) \/ Rename(p)
             \/ RefCheck(p) \/ Lookup(p) \/ Load(p) \/ ReadRef(p)
             \/ VerifyStat(p) \/ VerifyLoad(p) \/ VerifyRef(p) \/ Abort(p)
      PROVE  RefStep
  BY <1>4 DEF Stat, Compare, OpenTemp, Fill, Rename, RefCheck, Lookup, Load,
              ReadRef, VerifyStat, VerifyLoad, VerifyRef, Abort, RefStep, disk
<1>5. CASE (\E i \in Ids : DeleteCached(i)) \/ UNCHANGED vars
  BY <1>5 DEF DeleteCached, vars, RefStep
<1> QED
  BY <1>1, <1>2, <1>3, <1>4, <1>5 DEF NextLocal, Step

(* Installed refs stay as they are. *)
LEMMA RefStepKeeps ==
  ASSUME TypeInv, RefStep
  PROVE  \A i \in Ids : refs[i] # None => refs'[i] = refs[i]
  BY DEF TypeInv, TypeOK, RefStep

LEMMA NextRefInv ==
  ASSUME TypeInv, TypeInv', RefInv, [NextLocal]_vars
  PROVE  RefInv'
<1>1. RefStep
  BY NextRefStep DEF RefInv
<1>2. \A i \in Ids : refs[i] # None => refs'[i] = refs[i]
  BY <1>1, RefStepKeeps
<1>3. AckedIds \subseteq {i \in Ids : refs[i] # None}
  BY StoreConstants DEF AckedIds, RefInv, AckedDurable, TypeInv, TypeOK, File
<1>4. RefsAuthentic'
  BY <1>1 DEF RefInv, RefsAuthentic, RefStep, TypeInv, TypeOK
<1>5. AckedDurable'
  <2>1. \A a \in acked : a[1] \in Ids /\ refs[a[1]] # None
    BY StoreConstants DEF RefInv, AckedDurable, TypeInv, TypeOK, File
  <2> QED
    BY <1>1, <1>2, <2>1 DEF RefInv, AckedDurable, RefStep
<1>6. ExpectsInstalled'
  <2>1. \A p \in Procs : expects'[p] \in {expects[p], AckedIds}
    <3> USE DEF TypeInv, TypeOK
    <3>1. ASSUME NEW p \in Procs, Start(p)
          PROVE  expects' = [expects EXCEPT ![p] = AckedIds]
      BY <3>1 DEF Start, StartWrite, RejectWrite, StartRead, StartVerify, Begin
    <3>2. CASE \E p \in Procs : Start(p)
      BY <3>1, <3>2
    <3>3. CASE ~\E p \in Procs : Start(p)
      <4>1. UNCHANGED expects
        BY <3>3 DEF NextLocal, Step, Stat, Compare, OpenTemp, Fill, Rename,
                    RefCheck, RefCreate, Ack, Lookup, Load, ReadRef,
                    VerifyStat, VerifyLoad, VerifyRef, Abort, DeleteCached, vars
      <4> QED
        BY <4>1
    <3> QED
      BY <3>2, <3>3
  <2> QED
    BY <1>2, <1>3, <2>1 DEF RefInv, ExpectsInstalled, TypeInv, TypeOK
<1>7. AckInstalled'
  <2> SUFFICES ASSUME NEW q \in Procs, pc'[q] = "ack"
               PROVE  refs'[req'[q]] = buf'[q]
    BY DEF AckInstalled
  <2> USE DEF TypeInv, TypeOK
  <2>1. CASE RefCheck(q) \/ RefCreate(q)
    BY <2>1 DEF RefCheck, RefCreate, Continue, Goto, Return, disk
  <2>2. CASE ~(RefCheck(q) \/ RefCreate(q))
    <3>1. pc[q] = "ack" /\ req'[q] = req[q] /\ buf'[q] = buf[q]
      <4>1. CASE \E p \in Procs : Start(p)
        BY <4>1 DEF Start, StartWrite, RejectWrite, StartRead, StartVerify, Begin
      <4>2. CASE \E p \in Procs : Step(p)
        BY <2>2, <4>2
           DEF Step, Stat, Compare, OpenTemp, Fill, Rename, RefCheck, RefCreate,
               Ack, Lookup, Load, ReadRef, VerifyStat, VerifyLoad, VerifyRef,
               Continue, Goto, Return, Deliver, Cached
      <4>3. CASE \E p \in Procs : Abort(p)
        BY <4>3 DEF Abort, Return
      <4>4. CASE (\E i \in Ids : DeleteCached(i)) \/ UNCHANGED vars
        BY <4>4 DEF DeleteCached, vars
      <4> QED
        BY <4>1, <4>2, <4>3, <4>4 DEF NextLocal
    <3>2. refs[req[q]] = buf[q] /\ refs[req[q]] # None
      BY <3>1, StoreConstants DEF RefInv, AckInstalled, File
    <3> QED
      BY <1>2, <3>1, <3>2
  <2> QED
    BY <2>1, <2>2
<1> QED
  BY <1>4, <1>5, <1>6, <1>7 DEF RefInv

LEMMA NextNoLostObject ==
  ASSUME TypeInv, RefInv, NoLostObject, [NextLocal]_vars
  PROVE  NoLostObject'
<1> USE DEF TypeInv, TypeOK, NoLostObject
<1>1. ASSUME NEW p \in Procs, Start(p)
      PROVE  NoLostObject'
  BY <1>1 DEF Start, StartWrite, RejectWrite, StartRead, StartVerify, Begin
<1>2. ASSUME NEW p \in Procs, ReadRef(p)
      PROVE  NoLostObject'
  BY <1>2 DEF ReadRef, Return, Continue, Goto, RefInv, ExpectsInstalled
<1>3. ASSUME NEW p \in Procs,
             \/ Stat(p) \/ Compare(p) \/ OpenTemp(p) \/ Fill(p) \/ Rename(p)
             \/ RefCheck(p) \/ RefCreate(p) \/ Ack(p) \/ Lookup(p) \/ Load(p)
             \/ VerifyStat(p) \/ VerifyLoad(p) \/ VerifyRef(p) \/ Abort(p)
      PROVE  NoLostObject'
  <2>1. /\ UNCHANGED <<req, expects>>
        /\ \A q \in Procs : out'[q] \in {out[q], "ok", "error", "conflict",
                                        "valid", "invalid", "killed"}
    BY <1>3 DEF Stat, Compare, OpenTemp, Fill, Rename, RefCheck, RefCreate, Ack,
                Lookup, Load, VerifyStat, VerifyLoad, VerifyRef, Abort, Continue, Goto,
                Return, Deliver, Cached, Verdict
  <2> QED
    BY <2>1
<1>4. CASE (\E i \in Ids : DeleteCached(i)) \/ UNCHANGED vars
  BY <1>4 DEF DeleteCached, vars
<1> QED
  BY <1>1, <1>2, <1>3, <1>4 DEF NextLocal, Step

(* LocalInv is inductive. *)
LEMMA LocalInvInductive ==
  /\ Init => LocalInv
  /\ LocalInv /\ [NextLocal]_vars => LocalInv'
<1>1. Init => LocalInv
  <2>1. Init => RefInv /\ NoLostObject
    BY DEF Init, RefInv, RefsAuthentic, AckInstalled, AckedDurable,
           ExpectsInstalled, NoLostObject
  <2> QED
    BY <2>1, InitTypeInv DEF LocalInv
<1>2. LocalInv /\ [NextLocal]_vars => LocalInv'
  <2>1. [NextLocal]_vars => [NextSync]_vars
    BY DEF NextSync
  <2> QED
    BY <2>1, NextTypeInv, NextRefInv, NextNoLostObject DEF LocalInv
<1> QED
  BY <1>1, <1>2

(* A reported write is durable in its ref with exactly the reported bytes, *)
(* whatever concurrent writers, crashes and cache deletions do.            *)
THEOREM ReportedWritesAreDurable == SpecLocal => []AckedDurable
<1>1. LocalInv => AckedDurable
  BY DEF LocalInv, RefInv
<1> QED
  BY <1>1, LocalInvInductive, PTL DEF SpecLocal

(* No call that begins after a reported write says the object is missing,  *)
(* whatever happens to the cache in between.                               *)
THEOREM ReportedObjectsAreFound == SpecLocal => []NoLostObject
<1>1. LocalInv => NoLostObject
  BY DEF LocalInv
<1> QED
  BY <1>1, LocalInvInductive, PTL DEF SpecLocal

(* The refs and the reports implement the write-once registry. *)
THEOREM RefsImplementRegistry == SpecLocal => ImplementsRegistry
<1> USE DEF Registry!RegistryInit, Registry!RegistryNext, Registry!Install,
            Registry!Report
<1>1. Init => Registry!RegistryInit
  BY DEF Init
<1>2. LocalInv /\ [NextLocal]_vars => [Registry!RegistryNext]_<<refs, acked>>
  <2> SUFFICES ASSUME LocalInv, [NextLocal]_vars
               PROVE  [Registry!RegistryNext]_<<refs, acked>>
    OBVIOUS
  <2>1. RefStep
    BY NextRefStep DEF LocalInv, RefInv
  <2> QED
    BY <2>1 DEF RefStep
<1> QED
  BY <1>1, <1>2, LocalInvInductive, PTL
     DEF SpecLocal, ImplementsRegistry, Registry!RegistrySpec

(* No local command ever moves a ref that points at an object. *)
THEOREM RefsAreWriteOnce == SpecLocal => RefsWriteOnce
<1>1. LocalInv /\ [NextLocal]_vars
        => [\A i \in Ids : refs[i] # None => refs'[i] = refs[i]]_vars
  <2> SUFFICES ASSUME LocalInv, [NextLocal]_vars
               PROVE  \A i \in Ids : refs[i] # None => refs'[i] = refs[i]
    OBVIOUS
  <2>1. RefStep
    BY NextRefStep DEF LocalInv, RefInv
  <2> QED
    BY <2>1, RefStepKeeps DEF LocalInv
<1> QED
  BY <1>1, LocalInvInductive, PTL DEF SpecLocal, RefsWriteOnce

----------------------------------------------------------------------------
(* StoreInit                                                               *)

(* An init has made every directory before the one it looks at; past the   *)
(* directories, or once VERSION exists, the layout is complete.            *)
DirsMade ==
    /\ \A p \in Procs : \A d \in Layout :
          pc[p] \in {"dirs", "mkdir"} /\ d < next[p] => d \in dirs
    /\ \A p \in Procs : pc[p] = "mkdir" => next[p] <= NumDirs
    /\ \A p \in Procs :
          pc[p] \in {"create", "fill", "match", "temp"} => dirs = Layout
    /\ version # "absent" => dirs = Layout

(* VERSION stays once it exists; every success has seen or made it.        *)
VersionSeen ==
    /\ \A p \in Procs : ready[p] \/ result[p] \in Good => version # "absent"
    /\ \A p \in Procs :
          pc[p] \in {"fill", "match", "check", "temp"} => version # "absent"

(* A store of another release is never up for writing. *)
NotForeign ==
    \A p \in Procs : pc[p] \in {"create", "fill"} => version # "other"

InitInv ==
    /\ LayoutTypeOK /\ DirsMade /\ VersionSeen /\ NotForeign
    /\ OpenedIsComplete /\ InitializedStays

LEMMA LayoutInitHolds == LayoutInit => InitInv
  BY LayoutConstants
     DEF LayoutInit, InitInv, LayoutTypeOK, DirsMade, VersionSeen, NotForeign,
         OpenedIsComplete, InitializedStays, Layout, Versions, Good

LEMMA LayoutStep == InitInv /\ [LayoutNext]_layoutVars => InitInv'
<1> SUFFICES ASSUME InitInv, [LayoutNext]_layoutVars
             PROVE  InitInv'
  OBVIOUS
<1> USE LayoutConstants
    DEF InitInv, LayoutTypeOK, DirsMade, VersionSeen, NotForeign,
        OpenedIsComplete, InitializedStays, Layout, Versions, Good
<1>1. ASSUME NEW p \in Procs, StartInit(p) \/ StartOpen(p)
      PROVE  InitInv'
  <2> DEFINE r == \E q \in Procs : result[q] \in Good \/ ready[q]
  <2>1. r \in BOOLEAN /\ (r => version # "absent")
    OBVIOUS
  <2>2. PICK l \in {"dirs", "exists"} : BeginCall(p, l)
    BY <1>1 DEF StartInit, StartOpen
  <2>3. /\ ready' = [ready EXCEPT ![p] = r] /\ pc' = [pc EXCEPT ![p] = l]
        /\ next' = [next EXCEPT ![p] = 1] /\ made' = [made EXCEPT ![p] = FALSE]
        /\ result' = [result EXCEPT ![p] = "none"]
        /\ UNCHANGED <<dirs, version>>
    BY <2>2 DEF BeginCall, Goto
  <2> HIDE DEF r
  <2>4. LayoutTypeOK'
    BY <2>1, <2>3
  <2>5. DirsMade' /\ NotForeign' /\ OpenedIsComplete'
    BY <2>3
  <2>6. VersionSeen' /\ InitializedStays'
    BY <2>1, <2>3
  <2> QED
    BY <2>4, <2>5, <2>6
<1>2. ASSUME NEW p \in Procs, EnsureDir(p)
      PROVE  InitInv'
  <2>1. LayoutTypeOK'
    BY <1>2 DEF EnsureDir, Goto
  <2>2. DirsMade'
    BY <1>2 DEF EnsureDir, Goto
  <2>3. VersionSeen' /\ NotForeign' /\ OpenedIsComplete' /\ InitializedStays'
    BY <1>2 DEF EnsureDir, Goto
  <2> QED
    BY <2>1, <2>2, <2>3
<1>3. ASSUME NEW p \in Procs, MakeDir(p)
      PROVE  InitInv'
  <2>0. next[p] \in Layout /\ next[p] + 1 \in 1..(NumDirs + 1)
    BY <1>3 DEF MakeDir
  <2>1. LayoutTypeOK'
    BY <1>3, <2>0 DEF MakeDir, Goto
  <2>2. DirsMade'
    BY <1>3 DEF MakeDir, Goto
  <2>3. VersionSeen' /\ NotForeign' /\ OpenedIsComplete' /\ InitializedStays'
    BY <1>3 DEF MakeDir, Goto
  <2> QED
    BY <2>1, <2>2, <2>3
<1>4. ASSUME NEW p \in Procs, VersionStat(p)
      PROVE  InitInv'
  <2>1. LayoutTypeOK'
    BY <1>4 DEF VersionStat, Goto
  <2>0. dirs = Layout
    <3>1. \A d \in Layout : d < next[p]
      BY <1>4 DEF VersionStat
    <3>2. \A d \in Layout : d \in dirs
      BY <1>4, <3>1 DEF VersionStat
    <3> QED
      BY <3>2
  <2>2. DirsMade'
    BY <1>4, <2>0 DEF VersionStat, Goto
  <2>3. VersionSeen' /\ NotForeign' /\ OpenedIsComplete' /\ InitializedStays'
    BY <1>4 DEF VersionStat, Goto
  <2> QED
    BY <2>1, <2>2, <2>3
<1>5. ASSUME NEW p \in Procs, VersionMatch(p)
      PROVE  InitInv'
  BY <1>5 DEF VersionMatch, Finish, Goto
<1>6. ASSUME NEW p \in Procs, VersionCreate(p)
      PROVE  InitInv'
  BY <1>6 DEF VersionCreate, Goto
<1>7. ASSUME NEW p \in Procs, VersionFill(p)
      PROVE  InitInv'
  BY <1>7 DEF VersionFill, Finish, Goto
<1>8. ASSUME NEW p \in Procs, OpenExists(p) \/ OpenCheck(p) \/ OpenTempDir(p)
      PROVE  InitInv'
  BY <1>8 DEF OpenExists, OpenCheck, OpenTempDir, Finish, Goto
<1>9. ASSUME NEW p \in Procs, Kill(p)
      PROVE  InitInv'
  BY <1>9 DEF Kill, Finish, Goto
<1>10. CASE UNCHANGED layoutVars
  BY <1>10 DEF layoutVars
<1> QED
  BY <1>1, <1>2, <1>3, <1>4, <1>5, <1>6, <1>7, <1>8, <1>9, <1>10 DEF LayoutNext

(* A command that got the store open, or an init that succeeded, finds the *)
(* whole layout, although it looks at VERSION and tmp only.                *)
THEOREM OpenedStoresAreComplete == LayoutSpec => []OpenedIsComplete
<1>1. InitInv => OpenedIsComplete
  BY DEF InitInv
<1> QED
  BY <1>1, LayoutInitHolds, LayoutStep, PTL DEF LayoutSpec

(* After a success no call finds the store uninitialized. *)
THEOREM InitializationIsPermanent == LayoutSpec => []InitializedStays
<1>1. InitInv => InitializedStays
  BY DEF InitInv
<1> QED
  BY <1>1, LayoutInitHolds, LayoutStep, PTL DEF LayoutSpec

(* init never rewrites the VERSION of another release. *)
THEOREM ForeignStoresAreKept == LayoutSpec => ForeignStoreKept
<1>1. InitInv /\ [LayoutNext]_layoutVars => [version = "other" => version' = "other"]_layoutVars
  BY DEF InitInv, NotForeign, LayoutTypeOK, LayoutNext, StartInit, StartOpen, BeginCall, EnsureDir,
         MakeDir, VersionStat, VersionMatch, VersionCreate, VersionFill,
         OpenExists, OpenCheck, OpenTempDir, Kill, layoutVars
<1> QED
  BY <1>1, LayoutInitHolds, LayoutStep, PTL DEF LayoutSpec, ForeignStoreKept
=============================================================================
