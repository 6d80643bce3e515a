--------------------------- MODULE MCRoomHistory ---------------------------
(***************************************************************************)
(* RoomHistory for TLC, from two states of a room with PostedSeq messages, *)
(* the second of which answers the first (in the channel, too), and        *)
(* nothing under way, so that what the bounds allow beyond them is spent   *)
(* on the history.  Opened is what Init reaches by the sends, Subscribe,   *)
(* BatchAcked and OpenRoom; Jumped is what Opened reaches by a jump to the *)
(* first message.                                                          *)
(***************************************************************************)
EXTENDS RoomHistory

CONSTANT PostedSeq      \* messages of the room at the start
ASSUME PostedAssumption == PostedSeq \in (PageLimit + 1)..MaxSeq

\* The reply takes the second number and its root the third.
PostedChange == PostedSeq + 1
Posted == [s \in Seqs |-> CASE s = 1 -> 3 [] s = 2 -> 2 [] s \in 3..PostedSeq -> s + 1 [] OTHER -> 0]

Shows(S) == held = [s \in Seqs |-> IF s \in S THEN Posted[s] ELSE 0]

Ready ==
    /\ rows = Posted
    /\ root = [s \in Seqs |-> IF s = 2 THEN 1 ELSE 0]
    /\ channel = 1..PostedSeq
    /\ lastSeq = PostedSeq
    /\ lastChange = PostedChange
    /\ events = {}
    /\ conn = "synced"
    /\ status = "ready"
    /\ cursor = PostedChange
    /\ paging = {}
    /\ again = FALSE
    /\ req = [slot \in Slots |-> Idle]

Opened == Ready /\ Shows((PostedSeq - PageLimit + 1)..PostedSeq) /\ hasOlder = TRUE /\ hasNewer = FALSE
Jumped == Ready /\ Shows(1..PageLimit) /\ hasOlder = FALSE /\ hasNewer = TRUE

OpenedSpec == Opened /\ [][HistoryNext]_vars
JumpedSpec == Jumped /\ [][HistoryNext]_vars

=============================================================================
