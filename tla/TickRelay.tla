----------------------------- MODULE TickRelay -----------------------------
(***************************************************************************)
(* What the quote pusher promises the readers of its Redis database about  *)
(* the ticks of the subscribed contract, with the process, the threads and *)
(* the connection left out.                                                *)
(*                                                                         *)
(* The exchange feeds ticks one after the other; a tick is identified by   *)
(* its position in the feed.  The relay may broadcast the newest tick on   *)
(* the channel, once, and may file it under its time stamp.  It may also   *)
(* do neither: nothing is ever retried, so a tick that is not relayed      *)
(* before the next one arrives is never relayed.                           *)
(***************************************************************************)
EXTENDS Naturals, Sequences

CONSTANTS
    DateTimeStamps   \* the time stamps a tick may carry

VARIABLES
    feed,      \* the time stamps of the ticks received, oldest first
    channel,   \* the ticks broadcast, oldest first
    filed      \* for each time stamp, the tick filed under it; 0 if none

relayVars == <<feed, channel, filed>>

RelayInit ==
    /\ feed = <<>>
    /\ channel = <<>>
    /\ filed = [s \in DateTimeStamps |-> 0]

Receive ==
    /\ \E s \in DateTimeStamps : feed' = Append(feed, s)
    /\ UNCHANGED <<channel, filed>>

Broadcast ==
    /\ feed # <<>>
    /\ \A i \in 1..Len(channel) : channel[i] < Len(feed)
    /\ channel' = Append(channel, Len(feed))
    /\ UNCHANGED <<feed, filed>>

File ==
    /\ feed # <<>>
    /\ filed' = [filed EXCEPT ![feed[Len(feed)]] = Len(feed)]
    /\ UNCHANGED <<feed, channel>>

RelayNext == Receive \/ Broadcast \/ File

RelaySpec == RelayInit /\ [][RelayNext]_relayVars

-----------------------------------------------------------------------------
(* A reader of the channel sees ticks in the order of the feed and none of
   them twice; a reader of the keys finds under a time stamp a tick that
   carries that time stamp. *)
RelayOrder ==
    /\ \A i \in 1..Len(channel) : channel[i] \in 1..Len(feed)
    /\ \A i, j \in 1..Len(channel) : i < j => channel[i] < channel[j]
    /\ \A s \in DateTimeStamps :
          filed[s] # 0 => filed[s] \in 1..Len(feed) /\ feed[filed[s]] = s
=============================================================================
