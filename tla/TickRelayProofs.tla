--------------------------- MODULE TickRelayProofs ---------------------------
(***************************************************************************)
(* What the abstract relay guarantees, for every set of time stamps and    *)
(* feeds of every length.                                                  *)
(***************************************************************************)
EXTENDS TickRelay, TLAPS

RelayTypeOK ==
    /\ feed \in Seq(DateTimeStamps)
    /\ channel \in Seq(Nat)
    /\ filed \in [DateTimeStamps -> Nat]

RelayInv == RelayTypeOK /\ RelayOrder

LEMMA RelayInvInit == RelayInit => RelayInv
BY DEF RelayInit, RelayInv, RelayTypeOK, RelayOrder

LEMMA RelayInvStep == RelayInv /\ [RelayNext]_relayVars => RelayInv'
<1> SUFFICES ASSUME RelayInv, [RelayNext]_relayVars
             PROVE  RelayInv'
  OBVIOUS
<1> USE DEF RelayInv, RelayTypeOK, RelayOrder
<1>1. CASE Receive
  <2> PICK s \in DateTimeStamps : feed' = Append(feed, s)
    BY <1>1 DEF Receive
  <2>1. /\ feed' \in Seq(DateTimeStamps)
        /\ Len(feed') = Len(feed) + 1
        /\ \A i \in 1..Len(feed) : feed'[i] = feed[i]
    OBVIOUS
  <2> QED BY <1>1, <2>1 DEF Receive
<1>2. CASE Broadcast
  <2>1. Len(feed) \in Nat /\ Len(feed) >= 1
    BY <1>2 DEF Broadcast
  <2>2. /\ channel' \in Seq(Nat)
        /\ Len(channel') = Len(channel) + 1
        /\ channel'[Len(channel) + 1] = Len(feed)
        /\ \A i \in 1..Len(channel) : channel'[i] = channel[i]
    BY <1>2, <2>1 DEF Broadcast
  <2> QED BY <1>2, <2>1, <2>2 DEF Broadcast
<1>3. CASE File
  <2>1. Len(feed) \in Nat /\ Len(feed) >= 1 /\ feed[Len(feed)] \in DateTimeStamps
    BY <1>3 DEF File
  <2> QED BY <1>3, <2>1 DEF File
<1>4. CASE UNCHANGED relayVars
  BY <1>4 DEF relayVars
<1> QED BY <1>1, <1>2, <1>3, <1>4 DEF RelayNext

(* Every relay of ticks keeps the order and the identity of what it relays. *)
THEOREM RelayCorrect == RelaySpec => []RelayOrder
<1>1. RelayInv => RelayOrder
  BY DEF RelayInv
<1> QED BY <1>1, RelayInvInit, RelayInvStep, PTL DEF RelaySpec
=============================================================================
