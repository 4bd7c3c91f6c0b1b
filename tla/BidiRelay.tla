----------------------------- MODULE BidiRelay -----------------------------
(***************************************************************************)
(* One session of the browser stream relay (gate4agent-bidi-relay): two    *)
(* roles, and for each a pump task that copies the frames it reads from    *)
(* its socket into the other role's channel, and the frames of its own     *)
(* channel to its socket.  A pump does one of the two at a time and waits  *)
(* inside: for room in the other's channel, or for its socket.             *)
(*                                                                         *)
(* A frame is its sender and its number.  Pings are answered by a write    *)
(* that carries no frame.  Left out: text frames, which the pump drops,    *)
(* and a second connection of a role whose first is still open.            *)
(***************************************************************************)
EXTENDS Naturals, Sequences, SequencesExt

CONSTANTS
  ChannelCapacity,  \* frames a pump's channel holds
  MaxPending,       \* frames kept for a role that has not connected yet
  MaxFrames,        \* bound: frames each side sends
  MaxConnections    \* bound: connections of each role

VARIABLES
  pc,           \* what each role's pump does: off, select, forward, write, pong
  hand,         \* the frame the pump has read or is writing
  tx,           \* the connection whose sender the role's slot has; 0: none
  via,          \* the connection whose sender a forward has taken; 0: none
  channel,      \* the frames sent to the role's pump
  pending,      \* the frames kept in the role's slot
  written,      \* the frames written to the role's socket
  sent          \* how many frames the process at the role's socket has sent

vars == <<pc, hand, tx, via, channel, pending, written, sent>>

Roles == {"Node", "Hq"}
peer(r) == IF r = "Node" THEN "Hq" ELSE "Node"

None == <<>>
Frame(r, n) == <<r, n>>

\* The last frames of s, as many as a slot keeps.
Latest(s) == IF Len(s) > MaxPending THEN SubSeq(s, Len(s) - MaxPending + 1, Len(s)) ELSE s

Move(r, to) == pc' = [pc EXCEPT ![r] = to]

\* pump, its start: the new sender is entered in the slot, and what was kept
\* for the role is sent into the new channel, as far as there is room.
Connect(r) ==
  /\ pc[r] = "off"
  /\ tx[r] < MaxConnections
  /\ tx' = [tx EXCEPT ![r] = @ + 1]
  /\ Move(r, "select")
  /\ channel' = [channel EXCEPT ![r] =
       IF Len(pending[r]) <= ChannelCapacity THEN pending[r]
       ELSE SubSeq(pending[r], 1, ChannelCapacity)]
  /\ pending' = [pending EXCEPT ![r] = <<>>]
  /\ UNCHANGED <<hand, via, written, sent>>

\* The pump ends: its channel is gone, its sender stays in the slot.
Stop(r) ==
  /\ Move(r, "off")
  /\ hand' = [hand EXCEPT ![r] = None]
  /\ channel' = [channel EXCEPT ![r] = <<>>]
  /\ UNCHANGED <<tx, via, pending, written, sent>>

\* The socket was closed, or reading from it or writing to it failed.
Disconnect(r) == pc[r] \in {"select", "write", "pong"} /\ Stop(r)

\* The arm of select that reads a binary frame; forward then takes the
\* sender of the other role, if there is one.
Read(r) ==
  /\ pc[r] = "select"
  /\ sent[r] < MaxFrames
  /\ sent' = [sent EXCEPT ![r] = @ + 1]
  /\ hand' = [hand EXCEPT ![r] = Frame(r, sent[r] + 1)]
  /\ via' = [via EXCEPT ![r] = tx[peer(r)]]
  /\ Move(r, "forward")
  /\ UNCHANGED <<tx, channel, pending, written>>

Forwarded(r) ==
  /\ hand' = [hand EXCEPT ![r] = None]
  /\ via' = [via EXCEPT ![r] = 0]
  /\ Move(r, "select")
  /\ UNCHANGED <<tx, written, sent>>

\* forward, with a sender: waits for room, and loses the frame when the
\* channel of that connection is gone.
Forward(r) ==
  LET p == peer(r)
  IN  /\ pc[r] = "forward"
      /\ via[r] # 0
      /\ \/ /\ via[r] = tx[p] /\ pc[p] # "off"
            /\ Len(channel[p]) < ChannelCapacity
            /\ channel' = [channel EXCEPT ![p] = Append(@, hand[r])]
         \/ /\ via[r] # tx[p] \/ pc[p] = "off"
            /\ UNCHANGED channel
      /\ Forwarded(r)
      /\ UNCHANGED pending

\* forward, without one: it looks again, and the slot keeps the latest
\* frames of a role that has never connected.
Keep(r) ==
  LET p == peer(r)
  IN  /\ pc[r] = "forward"
      /\ via[r] = 0
      /\ \/ /\ tx[p] # 0
            /\ via' = [via EXCEPT ![r] = tx[p]]
            /\ UNCHANGED <<pc, hand, tx, pending, written, sent>>
         \/ /\ tx[p] = 0
            /\ pending' = [pending EXCEPT ![p] = Latest(Append(@, hand[r]))]
            /\ Forwarded(r)
      /\ UNCHANGED channel

\* The arm of select that receives from the role's own channel.
Receive(r) ==
  /\ pc[r] = "select"
  /\ channel[r] # <<>>
  /\ hand' = [hand EXCEPT ![r] = Head(channel[r])]
  /\ channel' = [channel EXCEPT ![r] = Tail(@)]
  /\ Move(r, "write")
  /\ UNCHANGED <<tx, via, pending, written, sent>>

\* The socket takes the frame, or the answer to a ping.
Write(r) ==
  /\ pc[r] \in {"write", "pong"}
  /\ written' = [written EXCEPT ![r] = IF pc[r] = "write" THEN @ \cup {hand[r]} ELSE @]
  /\ hand' = [hand EXCEPT ![r] = None]
  /\ Move(r, "select")
  /\ UNCHANGED <<tx, via, channel, pending, sent>>

Ping(r) ==
  /\ pc[r] = "select"
  /\ Move(r, "pong")
  /\ UNCHANGED <<hand, tx, via, channel, pending, written, sent>>

Init ==
  /\ pc = [r \in Roles |-> "off"]
  /\ hand = [r \in Roles |-> None]
  /\ tx = [r \in Roles |-> 0]
  /\ via = [r \in Roles |-> 0]
  /\ channel = [r \in Roles |-> <<>>]
  /\ pending = [r \in Roles |-> <<>>]
  /\ written = [r \in Roles |-> {}]
  /\ sent = [r \in Roles |-> 0]

Next ==
  \E r \in Roles :
    \/ Connect(r) \/ Disconnect(r) \/ Read(r) \/ Forward(r) \/ Keep(r)
    \/ Receive(r) \/ Write(r) \/ Ping(r)

\* A task that can go on does; a socket that is written to takes what is
\* written; and select picks at random among the arms that are ready, so one
\* that is ready again and again is picked.
Fairness ==
  \A r \in Roles :
    /\ WF_vars(Forward(r)) /\ WF_vars(Keep(r)) /\ WF_vars(Write(r))
    /\ SF_vars(Receive(r))

FairSpec == Init /\ [][Next]_vars /\ Fairness

-----------------------------------------------------------------------------

BothConnected == \A r \in Roles : pc[r] # "off"

\* The relay has read frame f, is not about to send it to a connection that
\* is gone, and has not yet written it.
Held(f) ==
  \E r \in Roles :
    \/ f \in ToSet(channel[r])
    \/ hand[r] = f /\ (pc[r] = "forward" => via[r] = tx[peer(r)])

\* A frame the relay holds while both sides are connected is written to the
\* other side's socket, unless one of them disconnects (pump, forward).
FramesCopied ==
  \A r \in Roles : \A n \in 1 .. MaxFrames :
    (Held(Frame(r, n)) /\ BothConnected)
      ~> (Frame(r, n) \in written[peer(r)] \/ ~BothConnected)
=============================================================================
