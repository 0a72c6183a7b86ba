--------------------------- MODULE ApprovalsProofs --------------------------
(***************************************************************************)
(* A request is answered once, and an upload keeps its archive, for every  *)
(* number of messages and whatever they say.                               *)
(*                                                                         *)
(* Both follow from one fact: a request that has been asked about and not  *)
(* answered is in at most one place, one of the two maps or the hands of   *)
(* one handler (Apart), and is undecided while it waits or is weighed      *)
(* (Undecided).  The archive of a file is there as long as it is in such a *)
(* place (Kept).                                                           *)
(***************************************************************************)
EXTENDS Approvals, TLAPS

Holds(u) == pc[u] \in {"judge", "upload"} /\ held[u] # None

\* A request in the map or in a handler's hands has been asked about.
Asked ==
    /\ \A k \in Kinds : waiting[k] # None => pc[waiting[k]] = "asked"
    /\ \A u \in Updates : Holds(u) => pc[held[u]] = "asked"

\* It is in one place only.
Apart ==
    /\ \A k, l \in Kinds : waiting[k] # None /\ waiting[k] = waiting[l] => k = l
    /\ \A u \in Updates, k \in Kinds : Holds(u) => waiting[k] # held[u]
    /\ \A u, v \in Updates :
          Holds(u) /\ Holds(v) /\ held[u] = held[v] => u = v

\* It is undecided until its holder has approved or rejected it.
Undecided ==
    /\ \A k \in Kinds : waiting[k] # None => verdicts[waiting[k]] = {}
    /\ \A u \in Updates :
          pc[u] = "judge" /\ held[u] # None => verdicts[held[u]] = {}
    /\ \A r \in Updates : pc[r] # "asked" => verdicts[r] = {}

RequestInv == Asked /\ Apart /\ Undecided /\ OneVerdict

\* The archive of a file stays on disk while its request is on its way.
Kept ==
    /\ \A u \in Updates : pc[u] \in {"look", "ask"} /\ IsGet(u) =>
                             slot[u] = "file" /\ u \in archive
    /\ waiting["file"] # None => waiting["file"] \in archive
    /\ \A u \in Updates :
          Holds(u) /\ slot[u] = "file" => held[u] \in archive
    /\ \A u \in Updates : pc[u] = "upload" => held[u] # None /\ slot[u] = "file"

-----------------------------------------------------------------------------
(* Types                                                                    *)

\* No step of a handler, and no passing of time, breaks a type.
LEMMA TypeStep == TypeOK /\ [Next]_vars => TypeOK'
<1> SUFFICES ASSUME TypeOK, [Next]_vars PROVE TypeOK'
  OBVIOUS
<1>1. ASSUME NEW u \in Updates, Receive(u) PROVE TypeOK'
  <2>1. PICK m \in Menu[u] :
          /\ msg' = [msg EXCEPT ![u] = m]
          /\ Goto(u, IF m.text = "get" THEN "archive" ELSE "look")
    BY <1>1 DEF Receive
  <2>2. m \in Message
    BY ApprovalsAssumption
  <2> QED
    BY <1>1, <2>1, <2>2 DEF Receive, TypeOK, Goto
<1>2. ASSUME NEW u \in Updates, Archive(u) PROVE TypeOK'
  BY <1>2 DEF Archive, TypeOK, Goto, Kinds
<1>3. ASSUME NEW u \in Updates, NothingWaits(u) PROVE TypeOK'
  BY <1>3 DEF NothingWaits, TypeOK, Goto, Drop, Kinds
<1>4. ASSUME NEW u \in Updates, RefuseFile(u) \/ SomethingWaits(u)
      PROVE  TypeOK'
  BY <1>4 DEF RefuseFile, SomethingWaits, TypeOK, Goto, Drop
<1>5. ASSUME NEW u \in Updates, Ask(u) PROVE TypeOK'
  BY <1>5 DEF Ask, TypeOK, Goto, Request, Kinds
<1>6. ASSUME NEW u \in Updates, Take(u) \/ TooLate(u) \/ PutBack(u)
      PROVE  TypeOK'
  BY <1>6 DEF Take, TooLate, PutBack, InTime, TypeOK, Goto, Drop, Kinds
<1>7. ASSUME NEW u \in Updates, Approve(u) \/ Deny(u) PROVE TypeOK'
  <2>1. held[u] \in Updates
    BY <1>7 DEF Approve, Deny, InTime, TypeOK
  <2>2. \E v \in {"approved", "rejected"} : Decide(u, held[u], v)
    BY <1>7 DEF Approve, Deny
  <2>3. verdicts' \in [Updates -> SUBSET Verdict]
    BY <2>1, <2>2 DEF Decide, TypeOK, Verdict
  <2> QED
    BY <1>7, <2>3 DEF Approve, Deny, TypeOK, Goto, Drop
<1>8. ASSUME NEW u \in Updates, EndUpload(u) \/ Expire(u) PROVE TypeOK'
  BY <1>8 DEF EndUpload, Expire, TypeOK, Goto, Drop
<1>9. CASE UNCHANGED vars
  BY <1>9 DEF vars, TypeOK
<1> QED
  BY <1>1, <1>2, <1>3, <1>4, <1>5, <1>6, <1>7, <1>8, <1>9
  DEF Next, Handle, AllDone

\* Every variable keeps its type, however many messages a chat sends.
THEOREM RequestsTyped == Spec => []TypeOK
<1>1. Init => TypeOK
  BY DEF Init, TypeOK, Message, Kinds
<1> QED
  BY <1>1, TypeStep, PTL DEF Spec

-----------------------------------------------------------------------------
(* One answer                                                               *)

\* Only a request taken in hand by one handler is ever decided.
LEMMA RequestStep == TypeOK /\ RequestInv /\ [Next]_vars => RequestInv'
<1> SUFFICES ASSUME TypeOK, RequestInv, [Next]_vars PROVE RequestInv'
  OBVIOUS
<1> USE ApprovalsAssumption DEF RequestInv, Asked, Apart, Undecided, Holds,
                                OneVerdict, TypeOK, Goto
<1>1. ASSUME NEW u \in Updates, Receive(u) \/ Archive(u) PROVE RequestInv'
  BY <1>1 DEF Receive, Archive
<1>2. ASSUME NEW u \in Updates, NothingWaits(u) PROVE RequestInv'
  BY <1>2 DEF NothingWaits, Kinds
<1>3. ASSUME NEW u \in Updates, RefuseFile(u) \/ SomethingWaits(u)
      PROVE  RequestInv'
  BY <1>3 DEF RefuseFile, SomethingWaits
<1>4. ASSUME NEW u \in Updates, Ask(u) PROVE RequestInv'
  BY <1>4 DEF Ask, Request, Kinds
<1>5. ASSUME NEW u \in Updates, Take(u) PROVE RequestInv'
  BY <1>5 DEF Take, Kinds
<1>6. ASSUME NEW u \in Updates, TooLate(u) PROVE RequestInv'
  BY <1>6 DEF TooLate
<1>7. ASSUME NEW u \in Updates, PutBack(u) PROVE RequestInv'
  BY <1>7 DEF PutBack, InTime, Kinds
<1>8. ASSUME NEW u \in Updates, Approve(u) PROVE RequestInv'
  BY <1>8 DEF Approve, InTime, Decide
<1>9. ASSUME NEW u \in Updates, Deny(u) PROVE RequestInv'
  BY <1>9 DEF Deny, InTime, Decide
<1>10. ASSUME NEW u \in Updates, EndUpload(u) \/ Expire(u) PROVE RequestInv'
  BY <1>10 DEF EndUpload, Expire
<1>11. CASE UNCHANGED vars
  BY <1>11 DEF vars
<1> QED
  BY <1>1, <1>2, <1>3, <1>4, <1>5, <1>6, <1>7, <1>8, <1>9, <1>10, <1>11
  DEF Next, Handle, AllDone

LEMMA RequestInvariant == Spec => []RequestInv
<1>1. Init => RequestInv
  BY DEF Init, RequestInv, Asked, Apart, Undecided, Holds, OneVerdict
<1> QED
  BY <1>1, RequestStep, RequestsTyped, PTL DEF Spec

\* However many answers arrive at once, a request is approved or rejected at
\* most once, so a command approved once is run once and a rejected one never.
THEOREM AnsweredOnce == Spec => []OneVerdict
<1>1. RequestInv => OneVerdict
  BY DEF RequestInv
<1> QED
  BY <1>1, RequestInvariant, PTL

-----------------------------------------------------------------------------
(* The archive of an upload                                                 *)

\* Nobody removes the archive of a request that is in another's hands.
LEMMA KeptStep == TypeOK /\ RequestInv /\ Kept /\ [Next]_vars => Kept'
<1> SUFFICES ASSUME TypeOK, RequestInv, Kept, [Next]_vars PROVE Kept'
  OBVIOUS
<1> USE ApprovalsAssumption DEF RequestInv, Asked, Apart, Holds, Kept, TypeOK,
                                Goto, IsGet, Drop
<1>1. ASSUME NEW u \in Updates, Receive(u) \/ Archive(u) PROVE Kept'
  BY <1>1 DEF Receive, Archive
<1>2. ASSUME NEW u \in Updates, NothingWaits(u) PROVE Kept'
  BY <1>2 DEF NothingWaits, Kinds
<1>3. ASSUME NEW u \in Updates, RefuseFile(u) \/ SomethingWaits(u)
      PROVE  Kept'
  BY <1>3 DEF RefuseFile, SomethingWaits, Kinds
<1>4. ASSUME NEW u \in Updates, Ask(u) PROVE Kept'
  BY <1>4 DEF Ask, Request, Kinds
<1>5. ASSUME NEW u \in Updates, Take(u) PROVE Kept'
  BY <1>5 DEF Take, Kinds
<1>6. ASSUME NEW u \in Updates, TooLate(u) PROVE Kept'
  BY <1>6 DEF TooLate, Kinds
<1>7. ASSUME NEW u \in Updates, PutBack(u) PROVE Kept'
  BY <1>7 DEF PutBack, InTime, Kinds
<1>8. ASSUME NEW u \in Updates, Approve(u) PROVE Kept'
  BY <1>8 DEF Approve, InTime, Kinds
<1>9. ASSUME NEW u \in Updates, Deny(u) PROVE Kept'
  BY <1>9 DEF Deny, InTime, Kinds
<1>10. ASSUME NEW u \in Updates, EndUpload(u) \/ Expire(u) PROVE Kept'
  BY <1>10 DEF EndUpload, Expire, Kinds
<1>11. CASE UNCHANGED vars
  BY <1>11 DEF vars
<1> QED
  BY <1>1, <1>2, <1>3, <1>4, <1>5, <1>6, <1>7, <1>8, <1>9, <1>10, <1>11
  DEF Next, Handle, AllDone

\* An approved file is uploaded from an archive that is there: neither its own
\* expiry nor another file's refusal or rejection removes it meanwhile.
THEOREM UploadReadsItsArchive == Spec => []UploadHasArchive
<1>1. Init => Kept
  BY DEF Init, Kept, Holds, IsGet, Kinds
<1>2. Spec => []Kept
  BY <1>1, KeptStep, RequestsTyped, RequestInvariant, PTL DEF Spec
<1>3. Kept => UploadHasArchive
  BY DEF Kept, Holds, UploadHasArchive
<1> QED
  BY <1>2, <1>3, PTL
=============================================================================
