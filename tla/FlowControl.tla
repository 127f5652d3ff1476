---------------------------- MODULE FlowControl -----------------------------
(***************************************************************************)
(* The data path of an open circuit between its two edges: the client      *)
(* ("origin", which keeps its windows in the layer of the last hop) and    *)
(* the exit relay.  sendme.c keeps a package and a deliver window for the  *)
(* circuit and for each stream, and remembers the digests that circuit-    *)
(* level SENDME cells must repeat; relay.c packages what the streams read  *)
(* into DATA cells, queues the cells of the circuit, and stops and resumes *)
(* the streams as windows and queue allow.  Each end is one event loop, so *)
(* a handler is one step.  The relays in between and the links pass the    *)
(* cells on in order.  Buffers are counted in cells' worth of data.        *)
(***************************************************************************)
EXTENDS Integers, Sequences, FiniteSets

CONSTANTS
    NStreams,                   \* streams on the circuit, in list order
    CIRCWINDOW_START, CIRCWINDOW_INCREMENT,
    STREAMWINDOW_START, STREAMWINDOW_INCREMENT,
    CELL_QUEUE_HIGHWATER_SIZE, CELL_QUEUE_LOWWATER_SIZE,
    max_circuit_cell_queue_size,
    circwindow,                 \* consensus parameter: first package window
    OutbufFull,                 \* cells in an outbuf that is not yet too full
    AppData,                    \* AppData[x][s]: what is written at x on s
    ReadSizes,                  \* bound: what one read may bring in
    LinkRoom,                   \* bound: cells under way on the links
    Closers                     \* <<x, s>>: x may hang up on stream s

Streams == 1 .. NStreams
Ends == {"origin", "exit"}
Peer(x) == IF x = "origin" THEN "exit" ELSE "origin"

\* That circwindow is a multiple of the increment is assumed of the consensus:
\* circuit_initial_package_window() does not check it.
ASSUME FlowAssumption ==
    /\ NStreams \in Nat /\ OutbufFull \in Nat
    /\ CIRCWINDOW_START \in Nat /\ CIRCWINDOW_INCREMENT \in Nat \ {0, 1}
    /\ CIRCWINDOW_START % CIRCWINDOW_INCREMENT = 0
    /\ circwindow \in 1 .. CIRCWINDOW_START
    /\ circwindow % CIRCWINDOW_INCREMENT = 0
    /\ STREAMWINDOW_START \in Nat
    /\ STREAMWINDOW_INCREMENT \in 1 .. STREAMWINDOW_START
    /\ CELL_QUEUE_LOWWATER_SIZE \in Nat /\ CELL_QUEUE_HIGHWATER_SIZE \in Nat
    /\ CELL_QUEUE_LOWWATER_SIZE < CELL_QUEUE_HIGHWATER_SIZE
    /\ max_circuit_cell_queue_size \in Nat
    /\ AppData \in [Ends -> [Streams -> Nat]]
    /\ ReadSizes \subseteq Nat

VARIABLES
    circ,    \* the circuit_t of each end, with its edge connections
    wire,    \* wire[x]: cells that have left x for its peer
    unread   \* unread[x][s]: what is written on s and x has not read yet

vars == <<circ, wire, unread>>

(* A digest is named by the end that sent the cell and the cell's position *)
(* in the running hash of its direction.                                   *)
NoDigest == <<"none", 0>>

NewConn == [package_window |-> STREAMWINDOW_START,
            deliver_window |-> STREAMWINDOW_START,
            inbuf |-> 0, outbuf |-> 0, reading |-> TRUE, marked |-> FALSE]

NewCirc == [package_window |-> circwindow,
            deliver_window |-> CIRCWINDOW_START,
            sendme_last_digests |-> <<>>, sendme_digest |-> NoDigest,
            encrypted |-> 0, decrypted |-> 0,
            n_data_packaged |-> 0, n_data_received |-> 0,
            cells |-> <<>>, streams_blocked |-> FALSE, filled |-> FALSE,
            marked |-> FALSE,
            conn |-> [s \in Streams |-> NewConn]]

FlowInit ==
    /\ circ = [x \in Ends |-> NewCirc]
    /\ wire = [x \in Ends |-> <<>>]
    /\ unread = AppData

-----------------------------------------------------------------------------
(* Packaging.  The operators take the circuit c of end x and return it as  *)
(* the function they model leaves it.                                      *)

(* A loop is a number of passes of its body, enough for it to end; a pass  *)
(* after its end changes nothing.                                          *)
Passes(Body(_), c, n) ==
    LET after[k \in 0 .. n] == IF k = 0 THEN c ELSE Body(after[k - 1])
    IN  after[n]

\* Mutant: the window is taken after the cell instead of before it.
CellIsNextLate(window) ==
    window # CIRCWINDOW_START /\ window % CIRCWINDOW_INCREMENT = 0

circuit_sendme_cell_is_next(window) ==
    /\ window # CIRCWINDOW_START
    /\ (window - 1) % CIRCWINDOW_INCREMENT = 0

(* connection_start_reading(), connection_stop_reading() of a stream with  *)
(* a socket of its own (not one linked to another connection).             *)
SetReading(c, S, on) ==
    [c EXCEPT !.conn = [s \in Streams |-> IF s \in S
                            THEN [@[s] EXCEPT !.reading = on] ELSE @[s]]]

set_streams_blocked_on_circ(c, block, S) ==
    SetReading([c EXCEPT !.streams_blocked = block, !.filled = @ \/ block],
               S, ~block)

append_cell_to_circuit_queue(c, cell) ==
    LET q == [c EXCEPT !.cells = Append(@, cell)]
    IN  IF Len(c.cells) >= max_circuit_cell_queue_size
          THEN [c EXCEPT !.marked = TRUE]
        ELSE IF c.streams_blocked /\ cell.stream # 0
          THEN set_streams_blocked_on_circ(q, TRUE, {cell.stream})
        ELSE IF Len(q.cells) >= CELL_QUEUE_HIGHWATER_SIZE /\ ~c.streams_blocked
          THEN set_streams_blocked_on_circ(q, TRUE, Streams)
        ELSE q

(* The cell is encrypted: the digest of its direction moves on, and is     *)
(* kept if the package window says that a SENDME will repeat it.  Both     *)
(* directions of an end keep it in the same place.                         *)
sendme_record_sending_cell_digest(c, x) ==
    [c EXCEPT !.encrypted = @ + 1,
              !.sendme_digest =
                  IF circuit_sendme_cell_is_next(c.package_window)
                    THEN <<x, c.encrypted + 1>> ELSE @]

sendme_record_received_cell_digest(c, x) ==
    [c EXCEPT !.decrypted = @ + 1,
              !.sendme_digest =
                  IF circuit_sendme_cell_is_next(c.deliver_window)
                    THEN <<Peer(x), c.decrypted + 1>> ELSE @]

sendme_record_cell_digest_on_circ(c) ==
    IF circuit_sendme_cell_is_next(c.package_window)
      THEN [c EXCEPT !.sendme_last_digests = Append(@, c.sendme_digest)]
      ELSE c

circuit_package_relay_cell(c, x, cell) ==
    IF c.marked THEN c
    ELSE append_cell_to_circuit_queue(
           sendme_record_sending_cell_digest(c, x), cell)

\* Mutant: every cell repeats the digest last recorded.
SendWithDigest(c, x, command, stream, digest) ==
    circuit_package_relay_cell(c, x,
        [command |-> command, stream |-> stream, digest |-> c.sendme_digest])

relay_send_command_from_edge(c, x, command, stream, digest) ==
    LET sent == circuit_package_relay_cell(c, x,
            [command |-> command, stream |-> stream, digest |-> digest])
    IN  IF command = "DATA" THEN sendme_record_cell_digest_on_circ(sent)
                            ELSE sent

circuit_consider_stop_edge_reading(c) ==
    IF c.package_window <= 0 THEN SetReading(c, Streams, FALSE) ELSE c

\* Mutant: a circuit window of zero still lets a cell out.
PackageOneMore(c, x, s) ==
    IF c.package_window < 0 THEN circuit_consider_stop_edge_reading(c)
    ELSE IF c.conn[s].package_window <= 0 THEN SetReading(c, {s}, FALSE)
    ELSE IF c.conn[s].inbuf = 0 \/ c.marked THEN c
    ELSE [relay_send_command_from_edge(c, x, "DATA", s, NoDigest)
            EXCEPT !.n_data_packaged = @ + 1,
                   !.package_window = @ - 1,
                   !.conn[s].package_window = @ - 1,
                   !.conn[s].inbuf = @ - 1]

PackageCell(c, x, s) ==
    IF c.package_window <= 0 THEN circuit_consider_stop_edge_reading(c)
    ELSE IF c.conn[s].package_window <= 0 THEN SetReading(c, {s}, FALSE)
    ELSE IF c.conn[s].inbuf = 0 \/ c.marked THEN c
    ELSE [relay_send_command_from_edge(c, x, "DATA", s, NoDigest)
            EXCEPT !.n_data_packaged = @ + 1,
                   !.package_window = @ - 1,
                   !.conn[s].package_window = @ - 1,
                   !.conn[s].inbuf = @ - 1]

connection_edge_package_raw_inbuf(c, x, s, max_cells) ==
    LET pass(d) == PackageCell(d, x, s)
    IN  IF max_cells <= 0 THEN c ELSE Passes(pass, c, max_cells)

(* max_cells == NULL: no limit but the windows and the inbuf.              *)
package_all(c, x, s) ==
    connection_edge_package_raw_inbuf(c, x, s, c.conn[s].inbuf + 1)

Packages(c, s) == ~c.conn[s].marked /\ c.conn[s].package_window > 0

(* circuit_resume_edge_reading_helper() visits a stream of its list.       *)
VisitStream(r, x, cells_per_conn, s) ==
    LET after == connection_edge_package_raw_inbuf(r.c, x, s, cells_per_conn)
    IN  IF r.stopped \/ ~Packages(r.c, s) THEN r
        ELSE [c |-> circuit_consider_stop_edge_reading(after),
              packaged |-> r.packaged + r.c.conn[s].inbuf - after.conn[s].inbuf,
              left |-> r.left + (IF after.conn[s].inbuf > 0 THEN 1 ELSE 0),
              stopped |-> after.package_window <= 0]

PackageRound(c, x, cells_per_conn) ==
    LET visited[s \in 0 .. NStreams] ==
          IF s = 0 THEN [c |-> c, packaged |-> 0, left |-> 0, stopped |-> FALSE]
          ELSE VisitStream(visited[s - 1], x, cells_per_conn, s)
    IN  visited[NStreams]

\* Mutant: there is only one round.
RoundOnce(h, x) ==
    LET r == PackageRound(h.c, x, (h.max + h.n - 1) \div h.n)
    IN  IF ~h.again THEN h
        ELSE [c |-> r.c, max |-> h.max - r.packaged, n |-> r.left,
              again |-> FALSE]

(* From "again:" to the end; a round that goes on packages a cell.         *)
RoundAgain(h, x) ==
    LET r == PackageRound(h.c, x, (h.max + h.n - 1) \div h.n)
    IN  IF ~h.again THEN h
        ELSE [c |-> r.c, max |-> h.max - r.packaged, n |-> r.left,
              again |-> /\ ~r.stopped /\ r.packaged > 0 /\ r.left > 0
                        /\ r.packaged < h.max]

PackageRounds(c, x, max, n) ==
    LET pass(h) == RoundAgain(h, x)
    IN  Passes(pass, [c |-> c, max |-> max, n |-> n, again |-> TRUE],
               IF max > 1 THEN max ELSE 1).c

(* At the origin circ->package_window is not the window in use: it keeps   *)
(* its first value.                                                        *)
max_to_package(c, x) ==
    LET window == IF x = "origin" THEN circwindow ELSE c.package_window
        room == CELL_QUEUE_HIGHWATER_SIZE - Len(c.cells)
    IN  IF room < window THEN room ELSE window

\* Mutant: the streams read again, but what they hold is not packaged.
ResumeReadingOnly(c, x) ==
    IF c.streams_blocked THEN c
    ELSE SetReading(c, {s \in Streams : Packages(c, s)}, TRUE)

circuit_resume_edge_reading(c, x) ==
    LET open == {s \in Streams : Packages(c, s)}
        waiting == {s \in open : c.conn[s].inbuf > 0}
        resumed == SetReading(c, open, TRUE)
    IN  IF c.streams_blocked THEN c
        ELSE IF waiting = {} THEN resumed
        ELSE PackageRounds(resumed, x, max_to_package(c, x),
                           Cardinality(waiting))

-----------------------------------------------------------------------------
(* SENDME cells.                                                           *)

StreamSendme(c, x, s) ==
    IF c.conn[s].outbuf > OutbufFull \/ c.marked
         \/ c.conn[s].deliver_window >
              STREAMWINDOW_START - STREAMWINDOW_INCREMENT
      THEN c
      ELSE relay_send_command_from_edge(
             [c EXCEPT !.conn[s].deliver_window = @ + STREAMWINDOW_INCREMENT],
             x, "SENDME", s, NoDigest)

sendme_connection_edge_consider_sending(c, x, s) ==
    LET pass(d) == StreamSendme(d, x, s)
    IN  Passes(pass, c, STREAMWINDOW_START)

CircuitSendme(c, x) ==
    IF c.deliver_window > CIRCWINDOW_START - CIRCWINDOW_INCREMENT \/ c.marked
      THEN c
      ELSE relay_send_command_from_edge(
             [c EXCEPT !.deliver_window = @ + CIRCWINDOW_INCREMENT],
             x, "SENDME", 0, c.sendme_digest)

sendme_circuit_consider_sending(c, x) ==
    LET pass(d) == CircuitSendme(d, x)
    IN  Passes(pass, c, CIRCWINDOW_START)

(* A SENDME must repeat the oldest digest on record.                       *)
sendme_is_valid(c, cell) ==
    /\ c.sendme_last_digests # <<>>
    /\ Head(c.sendme_last_digests) = cell.digest

sendme_process_circuit_level(c, cell) ==
    IF /\ sendme_is_valid(c, cell)
       /\ c.package_window + CIRCWINDOW_INCREMENT <= CIRCWINDOW_START
      THEN [c EXCEPT !.sendme_last_digests = Tail(@),
                     !.package_window = @ + CIRCWINDOW_INCREMENT]
      ELSE [c EXCEPT !.marked = TRUE]

sendme_process_stream_level(c, s) ==
    IF c.conn[s].package_window + STREAMWINDOW_INCREMENT <= STREAMWINDOW_START
      THEN [c EXCEPT !.conn[s].package_window = @ + STREAMWINDOW_INCREMENT]
      ELSE [c EXCEPT !.marked = TRUE]

process_sendme_cell(c, x, cell) ==
    LET s == cell.stream
        circuit == sendme_process_circuit_level(c, cell)
        stream == sendme_process_stream_level(c, s)
    IN  IF s = 0 THEN IF circuit.marked THEN circuit
                      ELSE circuit_resume_edge_reading(circuit, x)
        ELSE IF c.conn[s].marked THEN c
        ELSE IF stream.marked \/ stream.streams_blocked THEN stream
        ELSE package_all(SetReading(stream, {s}, TRUE), x, s)

-----------------------------------------------------------------------------
(* Cells that arrive.                                                      *)

\* Mutant: a cell for a stream that has ended is dropped uncounted.
DropUncounted(c, x, s) ==
    IF c.conn[s].marked THEN c
    ELSE sendme_connection_edge_consider_sending(
           sendme_circuit_consider_sending(
             [c EXCEPT !.n_data_received = @ + 1, !.deliver_window = @ - 1,
                       !.conn[s].deliver_window = @ - 1,
                       !.conn[s].outbuf = @ + 1], x), x, s)

process_data_cell(c, x, s) ==
    LET counted == sendme_circuit_consider_sending(
                     [c EXCEPT !.n_data_received = @ + 1,
                               !.deliver_window = @ - 1], x)
        stored == [counted EXCEPT !.conn[s].deliver_window = @ - 1,
                                  !.conn[s].outbuf = @ + 1]
    IN  IF c.deliver_window <= 0 THEN [c EXCEPT !.marked = TRUE]
        ELSE IF counted.conn[s].marked THEN counted
        ELSE IF counted.conn[s].deliver_window <= 0
          THEN [counted EXCEPT !.marked = TRUE]
        ELSE sendme_connection_edge_consider_sending(stored, x, s)

process_end_cell(c, s) ==
    [c EXCEPT !.conn[s].marked = TRUE, !.conn[s].reading = FALSE]

circuit_receive_relay_cell(c, x, cell) ==
    LET d == sendme_record_received_cell_digest(c, x)
    IN  IF c.marked THEN c
        ELSE CASE cell.command = "DATA" -> process_data_cell(d, x, cell.stream)
               [] cell.command = "SENDME" -> process_sendme_cell(d, x, cell)
               [] cell.command = "END" -> process_end_cell(d, cell.stream)

Receive(x) ==
    /\ wire[Peer(x)] # <<>>
    /\ circ' = [circ EXCEPT ![x] = circuit_receive_relay_cell(@, x,
                                       Head(wire[Peer(x)]))]
    /\ wire' = [wire EXCEPT ![Peer(x)] = Tail(@)]
    /\ UNCHANGED unread

-----------------------------------------------------------------------------
(* Events at an edge.                                                      *)

(* A stream that reads gets data from its socket and packages it.          *)
ReadSocket(x, s) ==
    /\ circ[x].conn[s].reading /\ ~circ[x].conn[s].marked /\ ~circ[x].marked
    /\ unread[x][s] > 0
    /\ \E size \in ReadSizes :
         LET n == IF size < unread[x][s] THEN size ELSE unread[x][s]
             c == [circ[x] EXCEPT !.conn[s].inbuf = @ + n]
         IN  /\ unread' = [unread EXCEPT ![x][s] = @ - n]
             /\ circ' = [circ EXCEPT ![x] = package_all(c, x, s)]
    /\ UNCHANGED wire

\* Mutant: flushing does not consider a stream-level SENDME.
FlushOnly(x, s) ==
    /\ ~circ[x].conn[s].marked /\ ~circ[x].marked
    /\ \E n \in 1 .. circ[x].conn[s].outbuf :
         circ' = [circ EXCEPT ![x].conn[s].outbuf = @ - n]
    /\ UNCHANGED <<wire, unread>>

(* The socket takes some of the outbuf.                                    *)
FlushOutbuf(x, s) ==
    /\ ~circ[x].conn[s].marked /\ ~circ[x].marked
    /\ \E n \in 1 .. circ[x].conn[s].outbuf :
         LET c == [circ[x] EXCEPT !.conn[s].outbuf = @ - n]
         IN  circ' = [circ EXCEPT ![x] =
                        sendme_connection_edge_consider_sending(c, x, s)]
    /\ UNCHANGED <<wire, unread>>

(* The channel takes a cell of the circuit.                                *)
channel_flush_from_first_active_circuit(x) ==
    /\ circ[x].cells # <<>> /\ ~circ[x].marked
    /\ Len(wire[x]) < LinkRoom
    /\ LET c == [circ[x] EXCEPT !.cells = Tail(@)]
           low == /\ c.streams_blocked
                  /\ Len(c.cells) <= CELL_QUEUE_LOWWATER_SIZE
       IN  circ' = [circ EXCEPT ![x] =
                      IF low
                        THEN set_streams_blocked_on_circ(c, FALSE, Streams)
                        ELSE c]
    /\ wire' = [wire EXCEPT ![x] = Append(@, Head(circ[x].cells))]
    /\ UNCHANGED unread

(* The application or the destination hangs up.                            *)
connection_edge_end(x, s) ==
    /\ <<x, s>> \in Closers
    /\ ~circ[x].conn[s].marked /\ ~circ[x].marked
    /\ circ' = [circ EXCEPT ![x] = process_end_cell(
                  relay_send_command_from_edge(@, x, "END", s, NoDigest), s)]
    /\ UNCHANGED <<wire, unread>>

FlowNext == \E x \in Ends :
    \/ Receive(x)
    \/ channel_flush_from_first_active_circuit(x)
    \/ \E s \in Streams : \/ ReadSocket(x, s)
                          \/ FlushOutbuf(x, s)
                          \/ connection_edge_end(x, s)

FlowSpec == FlowInit /\ [][FlowNext]_vars

-----------------------------------------------------------------------------
(* Properties.                                                             *)

Digest == Ends \X Nat

(* The cells of a command on the streams S; stream 0 is the circuit.       *)
Kind(command, S) ==
    [command : {command}, stream : S,
     digest : IF command = "SENDME" /\ S = {0} THEN Digest ELSE {NoDigest}]

Cell == Kind("DATA", Streams) \cup Kind("SENDME", Streams)
          \cup Kind("SENDME", {0}) \cup Kind("END", Streams)

Conn == [package_window : Int, deliver_window : Int, inbuf : Nat, outbuf : Nat,
         reading : BOOLEAN, marked : BOOLEAN]

Circuit == [package_window : Int, deliver_window : Int,
            sendme_last_digests : Seq(Digest),
            sendme_digest : Digest \cup {NoDigest},
            encrypted : Nat, decrypted : Nat,
            n_data_packaged : Nat, n_data_received : Nat,
            cells : Seq(Cell), streams_blocked : BOOLEAN, filled : BOOLEAN,
            marked : BOOLEAN, conn : [Streams -> Conn]]

(* Type correctness; in particular a cell carries a digest exactly when it *)
(* is a circuit-level SENDME.                                              *)
FlowTypeOK == /\ circ \in [Ends -> Circuit]
              /\ wire \in [Ends -> Seq(Cell)]
              /\ unread \in [Ends -> [Streams -> Nat]]

(* Two ends that both follow the code never close the circuit on each      *)
(* other: no window is overdrawn or overfull, no SENDME comes without a    *)
(* digest or with the wrong one although both directions of an end share   *)
(* one sendme_digest.  The limit of the cell queue has to leave room for   *)
(* SENDME and END cells, which neither windows nor marks hold back (the    *)
(* XXX comment before max_circuit_cell_queue_size).                        *)
CircuitSurvives == \A x \in Ends : ~circ[x].marked

(* Cells of a kind that x has sent and its peer has not processed.         *)
Count(q, kind) == Cardinality({i \in 1 .. Len(q) : q[i] \in kind})
UnderWay(x, command, S) == Count(wire[x] \o circ[x].cells, Kind(command, S))

(* The package window of one end, the DATA cells and the SENDME cells      *)
(* under way always add up to the deliver window of the other end: no      *)
(* credit is lost or made up, per stream as long as both ends have it and  *)
(* for the circuit even when streams end while their cells are under way.  *)
CreditConserved == \A x \in Ends :
    LET c == circ[x]
        p == circ[Peer(x)]
    IN  /\ c.package_window + UnderWay(x, "DATA", Streams)
             + CIRCWINDOW_INCREMENT * UnderWay(Peer(x), "SENDME", {0})
             + (CIRCWINDOW_START - circwindow) = p.deliver_window
        /\ \A s \in Streams : ~c.conn[s].marked /\ ~p.conn[s].marked =>
             c.conn[s].package_window + UnderWay(x, "DATA", {s})
               + STREAMWINDOW_INCREMENT * UnderWay(Peer(x), "SENDME", {s})
               = p.conn[s].deliver_window

(* Each direction of the circuit is a credit account.                      *)
SendmesCredited(x) == (circ[x].package_window + circ[x].n_data_packaged
                         - circwindow) \div CIRCWINDOW_INCREMENT
SendmesGranted(x) == (circ[x].deliver_window + circ[x].n_data_received
                        - CIRCWINDOW_START) \div CIRCWINDOW_INCREMENT

FromOrigin == INSTANCE CreditWindow WITH
    Start <- circwindow, Increment <- CIRCWINDOW_INCREMENT,
    packaged <- circ["origin"].n_data_packaged,
    received <- circ["exit"].n_data_received,
    granted <- SendmesGranted("exit"), credited <- SendmesCredited("origin")

FromExit == INSTANCE CreditWindow WITH
    Start <- circwindow, Increment <- CIRCWINDOW_INCREMENT,
    packaged <- circ["exit"].n_data_packaged,
    received <- circ["origin"].n_data_received,
    granted <- SendmesGranted("origin"), credited <- SendmesCredited("exit")

(* The windows and cells of the circuit implement CreditWindow in both     *)
(* directions: no end is ever further ahead of its peer than its credit.   *)
ImplementsCredit == FromOrigin!CreditSpec /\ FromExit!CreditSpec

(* A circuit-level SENDME that finds the queue unblocked leaves nothing    *)
(* behind that could be sent: afterwards the circuit window is used up,    *)
(* the queue is full, or every stream has an empty inbuf or no window left *)
(* (the rounds of circuit_resume_edge_reading_helper()).                   *)
SendmeResumes == [][\A x \in Ends :
    ( /\ Len(wire'[Peer(x)]) < Len(wire[Peer(x)])
      /\ Head(wire[Peer(x)]).command = "SENDME"
      /\ Head(wire[Peer(x)]).stream = 0
      /\ ~circ[x].streams_blocked )
    => LET c == circ'[x]
       IN  \/ c.package_window <= 0
           \/ c.streams_blocked
           \/ \A s \in Streams : Packages(c, s) => c.conn[s].inbuf = 0]_vars

(* Nothing is under way and no socket is ready: only another write, or a   *)
(* hang-up, makes the circuit move again.                                  *)
AtRest == \A x \in Ends :
    /\ wire[x] = <<>> /\ circ[x].cells = <<>>
    /\ \A s \in Streams : ~circ[x].conn[s].marked =>
         /\ circ[x].conn[s].outbuf = 0
         /\ circ[x].conn[s].reading => unread[x][s] = 0

(* The two ends never wait for each other: when everything under way has   *)
(* arrived all windows are open, those of the streams both ends have too,  *)
(* and every such stream reads.                                            *)
RestingCircuitIsOpen == AtRest => \A x \in Ends :
    /\ circ[x].package_window > 0
    /\ \A s \in Streams :
         ~circ[x].conn[s].marked /\ ~circ[Peer(x)].conn[s].marked =>
           circ[x].conn[s].package_window > 0 /\ circ[x].conn[s].reading

(* What a stream has read does not stay behind while its windows are open, *)
(* unless the cell queue has been full: a SENDME that finds the streams    *)
(* blocked sends nothing, and unblocking them only starts reading again    *)
(* (set_streams_blocked_on_circ(), "Is this right?").                      *)
OnlyFullQueuesStrand == AtRest => \A x \in Ends, s \in Streams :
    ~circ[x].conn[s].marked /\ circ[x].conn[s].inbuf > 0 => circ[x].filled
=============================================================================
