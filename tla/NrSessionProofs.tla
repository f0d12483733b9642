--------------------------- MODULE NrSessionProofs ---------------------------
(***************************************************************************)
(* What NrSession guarantees for every number of contexts, calls, lost     *)
(* links and every combination of failures.                                *)
(***************************************************************************)
EXTENDS NrSession, TLAPS

-----------------------------------------------------------------------------
(* The inductive invariant.                                                *)

\* Where a thread of the application is between WriteKey and Cleanup
HoldsKey(c) == app[c] \in {"tls", "connect", "wait", "cancel", "cleanup"}

\* The key file exists only while some nr_connect has its cleanup before it
KeyIsHeld == files["key"] # None => \E c \in Ctxs : HoldsKey(c)

\* The flag nr_connect polls is raised by a CONNACK, and lowered with the history
FlagAcknowledged == \A c \in Ctxs : connected[c] => accepted[c]

IInv == TypeOK /\ KeyIsHeld /\ NoFileLeft /\ FlagAcknowledged /\ SuccessIsAcknowledged
-----------------------------------------------------------------------------
(* Type correctness.                                                       *)

\* The initial state has the types.
LEMMA InitTypeOK == Init => TypeOK
BY SessionAssumption DEF Init, TypeOK

(* The application's thread, in nr_connect, ...                            *)
LEMMA ConnectTypeOK ==
  ASSUME TypeOK, NEW c \in Ctxs,
         \/ WriteCert(c) \/ WriteKey(c) \/ TlsSet(c) \/ Connect(c) \/ WaitConnected(c)
         \/ WaitTimeout(c) \/ CancelLoop(c) \/ Cleanup(c)
  PROVE  TypeOK'
<1> USE SessionAssumption DEF TypeOK, Go, callState, linkState, history, Paths
<1>1. CASE WriteCert(c)
  BY <1>1 DEF WriteCert
<1>2. CASE WriteKey(c)
  BY <1>2 DEF WriteKey
<1>3. CASE TlsSet(c)
  BY <1>3 DEF TlsSet
<1>4. CASE Connect(c)
  <2>1. drops' \in 0..MaxDrops
    BY <1>4 DEF Connect, May
  <2>2. CASE OpenLink(c)
    BY <1>4, <2>1, <2>2 DEF Connect, OpenLink
  <2>3. CASE ~OpenLink(c)
    BY <1>4, <2>1, <2>3 DEF Connect
  <2> QED
    BY <2>2, <2>3
<1>5. CASE WaitConnected(c) \/ WaitTimeout(c)
  BY <1>5 DEF WaitConnected, WaitTimeout
<1>6. CASE CancelLoop(c)
  BY <1>6 DEF CancelLoop
<1>7. CASE Cleanup(c)
  BY <1>7 DEF Cleanup
<1> QED
  BY <1>1, <1>2, <1>3, <1>4, <1>5, <1>6, <1>7

(* in nr_disconnect and nr_destroy,                                        *)
LEMMA DisconnectTypeOK ==
  ASSUME TypeOK, NEW c \in Ctxs,
         \/ \E next \in {"disconnect", "destroy"} : StartDisconnect(c, next)
         \/ Joined(c)
  PROVE  TypeOK'
<1> USE SessionAssumption DEF TypeOK, Go, callState, linkState, history, Paths
<1>1. CASE \E next \in {"disconnect", "destroy"} : StartDisconnect(c, next)
  BY <1>1 DEF StartDisconnect
<1>2. CASE Joined(c)
  BY <1>2 DEF Joined, Forget
<1> QED
  BY <1>1, <1>2

(* and the loop thread.                                                    *)
LEMMA LoopTypeOK ==
  ASSUME TypeOK, NEW c \in Ctxs, LoopStep(c) \/ Drop(c)
  PROVE  TypeOK'
<1> USE SessionAssumption DEF TypeOK, callState, linkState, history, May
<1>1. CASE OnConnect(c)
  BY <1>1 DEF OnConnect
<1>2. CASE OnDisconnect(c)
  BY <1>2 DEF OnDisconnect
<1>3. CASE Reconnect(c)
  BY <1>3 DEF Reconnect, OpenLink
<1>4. CASE LoopEnds(c)
  BY <1>4 DEF LoopEnds
<1>5. CASE Drop(c)
  BY <1>5 DEF Drop
<1> QED
  BY <1>1, <1>2, <1>3, <1>4, <1>5 DEF LoopStep

\* Every step keeps the types.
LEMMA NextTypeOK == TypeOK /\ [Next]_vars => TypeOK'
<1> SUFFICES ASSUME TypeOK, [Next]_vars
             PROVE  TypeOK'
  OBVIOUS
<1>1. CASE UNCHANGED vars
  BY <1>1 DEF TypeOK, vars, callState, linkState, history
<1>2. CASE Next
  BY <1>2, ConnectTypeOK, DisconnectTypeOK, LoopTypeOK DEF Next, AppStep, Call
<1> QED
  BY <1>1, <1>2

(* Every context's state and the shared files are well typed.              *)
THEOREM TypeCorrect == Spec => []TypeOK
BY InitTypeOK, NextTypeOK, PTL DEF Spec
-----------------------------------------------------------------------------
(* The temp files and the flag.                                            *)

\* The invariant holds at the start.
LEMMA InitIInv == Init => IInv
BY InitTypeOK DEF Init, IInv, KeyIsHeld, NoFileLeft, FlagAcknowledged,
                  SuccessIsAcknowledged, At, Paths

(* A step that leaves the files alone and takes no thread out of a         *)
(* critical part of nr_connect, nor one into a destroyed context.          *)
FilesKept ==
  /\ UNCHANGED files
  /\ \A c \in Ctxs : /\ HoldsKey(c) => HoldsKey(c)'
                     /\ app'[c] = "destroyed" => app[c] = "destroyed"

\* Such a step keeps what is known of the files.
LEMMA KeptFiles == KeyIsHeld /\ NoFileLeft /\ FilesKept => KeyIsHeld' /\ NoFileLeft'
BY DEF KeyIsHeld, NoFileLeft, FilesKept, At

(* Every path of nr_connect that has written the key leads through         *)
(* Cleanup, which removes it.                                              *)
LEMMA ConnectFiles ==
  ASSUME IInv, NEW c \in Ctxs,
         \/ WriteCert(c) \/ WriteKey(c) \/ TlsSet(c) \/ Connect(c) \/ WaitConnected(c)
         \/ WaitTimeout(c) \/ CancelLoop(c) \/ Cleanup(c)
  PROVE  KeyIsHeld' /\ NoFileLeft'
<1> USE DEF IInv, TypeOK, Go, At
<1>1. app'[c] # "destroyed"
  BY DEF WriteCert, WriteKey, TlsSet, Connect, WaitConnected, WaitTimeout, CancelLoop,
         Cleanup
<1>2. NoFileLeft'
  BY <1>1 DEF NoFileLeft
<1>3. CASE Cleanup(c)
  <2>1. files'["key"] = None
    BY <1>3 DEF Cleanup, Paths
  <2> QED
    BY <2>1, <1>2 DEF KeyIsHeld
<1>4. CASE WriteCert(c)
  <2>1. files'["key"] = files["key"] /\ \A d \in Ctxs : HoldsKey(d) => HoldsKey(d)'
    BY <1>4 DEF WriteCert, Paths, HoldsKey
  <2> QED
    BY <2>1, <1>2 DEF KeyIsHeld
<1>5. CASE WriteKey(c)
  <2>1. HoldsKey(c)' \/ (files'["key"] = files["key"] /\ app[c] = "key")
    BY <1>5 DEF WriteKey, Paths, HoldsKey
  <2>2. \A d \in Ctxs \ {c} : HoldsKey(d) => HoldsKey(d)'
    BY <1>5 DEF WriteKey, HoldsKey
  <2> QED
    BY <2>1, <2>2, <1>2 DEF KeyIsHeld, HoldsKey
<1>6. CASE TlsSet(c) \/ Connect(c) \/ WaitConnected(c) \/ WaitTimeout(c) \/ CancelLoop(c)
  <2>1. HoldsKey(c)'
    BY <1>6 DEF TlsSet, Connect, WaitConnected, WaitTimeout, CancelLoop, HoldsKey
  <2> QED
    BY <2>1, <1>2 DEF KeyIsHeld
<1> QED
  BY <1>3, <1>4, <1>5, <1>6

(* nr_disconnect removes all three files, whichever context calls it.      *)
LEMMA DisconnectFiles ==
  ASSUME IInv, NEW c \in Ctxs,
         \/ \E next \in {"disconnect", "destroy"} : StartDisconnect(c, next)
         \/ Joined(c)
  PROVE  KeyIsHeld' /\ NoFileLeft'
<1>1. CASE \E next \in {"disconnect", "destroy"} : StartDisconnect(c, next)
  <2>1. FilesKept
    BY <1>1 DEF StartDisconnect, FilesKept, HoldsKey, At, Go, IInv, TypeOK
  <2> QED
    BY <2>1, KeptFiles DEF IInv
<1>2. CASE Joined(c)
  <2>1. \A p \in Paths : files'[p] = None
    BY <1>2 DEF Joined
  <2> QED
    BY <2>1 DEF KeyIsHeld, NoFileLeft, Paths
<1> QED
  BY <1>1, <1>2

(* The flag and the broker's acceptance rise together and are lowered      *)
(* together by nr_disconnect; on_disconnect lowers only the flag.          *)
LEMMA FlagStep ==
  ASSUME IInv, NEW c \in Ctxs, AppStep(c) \/ Call(c) \/ LoopStep(c) \/ Drop(c)
  PROVE  FlagAcknowledged' /\ SuccessIsAcknowledged'
<1> USE DEF IInv, TypeOK, FlagAcknowledged, SuccessIsAcknowledged, At, Go,
            callState, linkState, history
<1>1. CASE WriteCert(c) \/ WriteKey(c)
  BY <1>1 DEF WriteCert, WriteKey
<1>2. CASE TlsSet(c)
  BY <1>2 DEF TlsSet
<1>3. CASE Connect(c)
  BY <1>3 DEF Connect
<1>4. CASE WaitConnected(c) \/ WaitTimeout(c)
  BY <1>4 DEF WaitConnected, WaitTimeout
<1>5. CASE CancelLoop(c) \/ Cleanup(c)
  BY <1>5 DEF CancelLoop, Cleanup
<1>6. CASE \E next \in {"disconnect", "destroy"} : StartDisconnect(c, next)
  BY <1>6 DEF StartDisconnect
<1>7. CASE Joined(c)
  BY <1>7 DEF Joined, Forget
<1>8. CASE OnConnect(c)
  BY <1>8 DEF OnConnect
<1>9. CASE OnDisconnect(c) \/ LoopEnds(c)
  BY <1>9 DEF OnDisconnect, LoopEnds
<1>10. CASE Reconnect(c) \/ Drop(c)
  BY <1>10 DEF Reconnect, Drop
<1> QED
  BY <1>1, <1>2, <1>3, <1>4, <1>5, <1>6, <1>7, <1>8, <1>9, <1>10 DEF AppStep, Call, LoopStep

\* Every step keeps the invariant.
LEMMA NextIInv == IInv /\ [Next]_vars => IInv'
<1> SUFFICES ASSUME IInv, [Next]_vars
             PROVE  IInv'
  OBVIOUS
<1>1. TypeOK'
  BY NextTypeOK DEF IInv
<1>2. CASE UNCHANGED vars
  BY <1>1, <1>2 DEF IInv, vars, callState, linkState, history, KeyIsHeld, NoFileLeft,
                    FlagAcknowledged, SuccessIsAcknowledged, At, HoldsKey
<1>3. ASSUME NEW c \in Ctxs, AppStep(c) \/ Call(c) \/ LoopStep(c) \/ Drop(c)
      PROVE  IInv'
  <2>1. FlagAcknowledged' /\ SuccessIsAcknowledged'
    BY <1>3, FlagStep
  <2>2. CASE LoopStep(c) \/ Drop(c)
    <3>1. FilesKept
      BY <2>2 DEF LoopStep, OnConnect, OnDisconnect, Reconnect, LoopEnds, Drop, callState,
                  FilesKept, HoldsKey
    <3> QED
      BY <1>1, <2>1, <3>1, KeptFiles DEF IInv
  <2>3. CASE AppStep(c) \/ Call(c)
    BY <1>1, <2>1, <2>3, ConnectFiles, DisconnectFiles DEF AppStep, Call, IInv
  <2> QED
    BY <1>3, <2>2, <2>3
<1> QED
  BY <1>2, <1>3 DEF Next

\* Hence it always holds.
LEMMA Inductive == Spec => []IInv
BY InitIInv, NextIInv, PTL DEF Spec

(* No path out of nr_connect leaves a private key on disk: while none of   *)
(* the contexts, however many write and remove the same file, is inside    *)
(* the call, there is no key file.                                         *)
THEOREM KeyRemoved == Spec => []KeyFileGone
<1>1. IInv => KeyFileGone
  BY DEF IInv, KeyIsHeld, HoldsKey, KeyFileGone, At
<1> QED
  BY <1>1, Inductive, PTL

(* When the last context is destroyed its nr_disconnect removes the files  *)
(* of all of them.                                                         *)
THEOREM FilesRemoved == Spec => []NoFileLeft
<1>1. IInv => NoFileLeft
  BY DEF IInv
<1> QED
  BY <1>1, Inductive, PTL

(* nr_connect returns NR_OK only if the broker has accepted a link since   *)
(* nr_create or the last nr_disconnect.                                    *)
THEOREM SuccessAcknowledged == Spec => []SuccessIsAcknowledged
<1>1. IInv => SuccessIsAcknowledged
  BY DEF IInv
<1> QED
  BY <1>1, Inductive, PTL
=============================================================================
