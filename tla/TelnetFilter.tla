---------------------------- MODULE TelnetFilter ----------------------------
(***************************************************************************)
(* The filter that takes telnet option negotiation out of a byte stream    *)
(* (iacProcessor in pkg/telnet/client.go), chunk by chunk, and a reference *)
(* definition that reads byte by byte.  Sequences are indexed from 1, the  *)
(* slices of the code from 0.                                              *)
(***************************************************************************)
EXTENDS Naturals, Sequences, SequencesExt

CONSTANTS
  IAC, WILL, SB, SE,   \* 255, one of WILL/WONT/DO/DONT, and the brackets
  MaxPending           \* maxIACPending

ASSUME PendingAssumption == MaxPending \in Nat \ {0}

\* Where a subnegotiation that starts before position j ends: the position
\* after IAC SE, or 0.
FindSubnegEnd(data, j) ==
  LET ends == {i \in j..Len(data) - 1 : data[i] = IAC /\ data[i + 1] = SE}
  IN  IF ends = {} THEN 0 ELSE 2 + CHOOSE i \in ends : \A k \in ends : i <= k

\* stash keeps an unfinished sequence for the next chunk; at the limit it
\* gives up and passes the bytes on.
Stash(rest, out) ==
  IF Len(rest) >= MaxPending
  THEN [out |-> out \o rest, pending |-> <<>>, flushed |-> TRUE]
  ELSE [out |-> out, pending |-> rest, flushed |-> FALSE]

\* The loop of feed, from position i with out collected so far.
FeedFrom(data) ==
  LET loop[i \in 1..Len(data) + 1] ==
        LET rest == SubSeq(data, i, Len(data))
            then(j, bytes) == [loop[j] EXCEPT !.out = bytes \o @]
        IN  IF i > Len(data) THEN [out |-> <<>>, pending |-> <<>>, flushed |-> FALSE]
            ELSE IF data[i] # IAC THEN then(i + 1, <<data[i]>>)
            ELSE IF i + 1 > Len(data) THEN Stash(rest, <<>>)
            ELSE CASE data[i + 1] = IAC -> then(i + 2, <<IAC>>)
                   [] data[i + 1] = WILL ->
                        IF i + 2 > Len(data) THEN Stash(rest, <<>>) ELSE then(i + 3, <<>>)
                   [] data[i + 1] = SB ->
                        LET j == FindSubnegEnd(data, i + 2)
                        IN  IF j = 0 THEN Stash(rest, <<>>) ELSE then(j, <<>>)
                   [] OTHER -> then(i + 2, <<>>)
  IN  loop[1]

\* Mutant of Feed: the chunk is put in front of what was pending.
FeedSwapped(pending, chunk) == FeedFrom(chunk \o pending)

\* feed: what was pending comes first.
Feed(pending, chunk) == FeedFrom(pending \o chunk)

-----------------------------------------------------------------------------
\* The reference: one byte at a time, with the state of the protocol.
ByteStep(acc, b) ==
  CASE acc.mode = "text"   -> IF b = IAC THEN [acc EXCEPT !.mode = "iac"]
                                         ELSE [acc EXCEPT !.out = Append(@, b)]
    [] acc.mode = "iac"    -> CASE b = IAC  -> [out |-> Append(acc.out, IAC), mode |-> "text"]
                                [] b = WILL -> [acc EXCEPT !.mode = "option"]
                                [] b = SB   -> [acc EXCEPT !.mode = "sub"]
                                [] OTHER    -> [acc EXCEPT !.mode = "text"]
    [] acc.mode = "option" -> [acc EXCEPT !.mode = "text"]
    [] acc.mode = "sub"    -> IF b = IAC THEN [acc EXCEPT !.mode = "subiac"] ELSE acc
    [] acc.mode = "subiac" -> CASE b = SE  -> [acc EXCEPT !.mode = "text"]
                                [] b = IAC -> acc
                                [] OTHER   -> [acc EXCEPT !.mode = "sub"]

Text(bytes) == FoldLeft(ByteStep, [out |-> <<>>, mode |-> "text"], bytes).out
=============================================================================
