------------------------------- MODULE Monitor -------------------------------
(***************************************************************************)
(* The Monitor: a process of its own that shows the runs and what the      *)
(* agents say.  A refresh tails the session file of an agent into the      *)
(* telemetry database and publishes what it finds to the event hub, which  *)
(* a browser follows over a stream that may be cut and opened again.  The  *)
(* database survives the process, the hub does not.                        *)
(*                                                                         *)
(* A session file is a sequence of symbols: a record (a line without its   *)
(* end) or a Newline; an offset into it counts symbols.                    *)
(***************************************************************************)
EXTENDS ControlCommands, SequencesExt

CONSTANTS Texts,        \* of each record, how many texts of the assistant it shows
          Newline,
          Retention     \* how many events the hub keeps (sseRetention, 2000)

ASSUME MonitorAssumption ==
    /\ Newline \notin DOMAIN Texts
    /\ \A r \in DOMAIN Texts : Texts[r] \in Nat
    /\ Retention \in Nat

VARIABLES
    session,    \* the session file
    rewritten,  \* history: it was cut back, which no agent does while it runs
    rows,       \* monitor_events: the offsets their ids are made of, by sequence
    cursor,     \* session_cursors: the offset up to which the file was read
    refreshing, \* refreshRunning
    scan,       \* the running scan: [buffer, start, at]
    hub,        \* the MonitorEventHub: [sequence, events]
    client,     \* the browser and its stream: [phase, wire, last]
    seen, lost  \* history: the activities the browser has got, and those given up

sVars == <<session, rewritten, rows, cursor, refreshing, scan, hub, client, seen, lost>>
fileVars == <<session, rewritten>>
tailVars == <<rows, cursor>>

Closed(last) == [phase |-> "closed", wire |-> <<>>, last |-> last]

MonitorInit ==
    /\ session = <<>> /\ rewritten = FALSE
    /\ rows = <<>> /\ cursor = 0
    /\ refreshing = FALSE /\ scan = None
    /\ hub = [sequence |-> 0, events |-> <<>>]
    /\ client = Closed(0)
    /\ seen = {} /\ lost = {}

Activities(events) == {e.sequence : e \in {e \in ToSet(events) : e.kind = "activity"}}

-----------------------------------------------------------------------------
(* The session file, which OpenClaw writes *)

\* A record, its end or both: the Monitor may read a line that is not complete yet.
WriteSession ==
    /\ Take("monitor")
    /\ IF session # <<>> /\ Last(session) # Newline
       THEN session' = Append(session, Newline)
       ELSE \E r \in DOMAIN Texts, written \in {<<>>, <<Newline>>} : session' = session \o <<r>> \o written
    /\ UNCHANGED <<rewritten, tailVars, refreshing, scan, hub, client, seen, lost>>

RewriteSession ==
    /\ Take("monitor") /\ session # <<>>
    /\ session' = <<>> /\ rewritten' = TRUE
    /\ UNCHANGED <<tailVars, refreshing, scan, hub, client, seen, lost>>

\* Where the line at an offset ends, its end included; the lines before the last one
\* that is complete; how many events parseSessionRecord makes of the line at an offset.
LineEnd(buffer, offset) ==
    CHOOSE i \in (offset + 1) .. Len(buffer) :
        buffer[i] = Newline /\ \A j \in (offset + 1) .. (i - 1) : buffer[j] # Newline
CompleteLength(buffer, start) ==
    Max({i \in (start + 1) .. Len(buffer) : buffer[i] = Newline} \union {start})
parseSessionRecord(buffer, offset) ==
    IF LineEnd(buffer, offset) = offset + 2 THEN Texts[buffer[offset + 1]] ELSE 0

-----------------------------------------------------------------------------
(* The event hub *)

\* An event is numbered, kept until Retention others have come, and sent to an open
\* stream; an activity that leaves the hub before any stream carried it is given up.
publish(kinds) ==
    LET fresh == [i \in DOMAIN kinds |-> [sequence |-> hub.sequence + i, kind |-> kinds[i]]]
        all == hub.events \o fresh
        kept == SubSeq(all, Max({1, Len(all) - Retention + 1}), Len(all))
        wire == IF client.phase = "open" THEN client.wire \o fresh ELSE client.wire
    IN /\ hub' = [sequence |-> hub.sequence + Len(kinds), events |-> kept]
       /\ client' = [client EXCEPT !.wire = wire]
       /\ lost' = lost \union (Activities(all) \ (Activities(kept) \union Activities(wire) \union seen))

\* The events are numbered in their order, so that the newer ones are the last of them.
after(sequence) ==
    LET newer == {i \in DOMAIN hub.events : hub.events[i].sequence > sequence}
    IN SubSeq(hub.events, Min(newer \union {Len(hub.events) + 1}), Len(hub.events))

-----------------------------------------------------------------------------
(* A refresh: the reads of the Kernel are awaited, the rest runs without a pause *)

\* A timer brings one, and so do the start and the stream; one that is running is enough.
\* The handler that waits for the end of one goes on before the next begins.
StartRefresh ==
    /\ Take("monitor") /\ ~refreshing /\ client.phase # "waiting"
    /\ refreshing' = TRUE
    /\ UNCHANGED <<fileVars, tailVars, scan, hub, client, seen, lost>>

RefreshReturns == refreshing' = FALSE /\ scan' = None

\* A file shorter than its cursor is read from its start again.
ReadSession ==
    /\ refreshing /\ scan = None
    /\ LET start == IF cursor > Len(session) THEN 0 ELSE cursor IN
       /\ cursor' = start
       /\ scan' = [buffer |-> session, start |-> start, at |-> start]
    /\ UNCHANGED <<budget, fileVars, rows, refreshing, hub, client, seen, lost>>

\* Mutant of EventId: the offset of the line in what was read, and not in the file.
RelativeEventId(start, relative) == relative

EventId(start, relative) == start + relative

addEvent(id) == rows' = IF id \in ToSet(rows) THEN rows ELSE Append(rows, id)

\* The texts of one line share an id: addEvent stores the first and answers with its row
\* for the others, as for any id it knows, and every answer is published.
StoreLine ==
    /\ scan # None /\ scan.at < CompleteLength(scan.buffer, scan.start)
    /\ LET count == parseSessionRecord(scan.buffer, scan.at) IN
       /\ IF count > 0 THEN addEvent(EventId(scan.start, scan.at - scan.start)) ELSE UNCHANGED rows
       /\ publish([i \in 1 .. count |-> "activity"])
    /\ scan' = [scan EXCEPT !.at = LineEnd(scan.buffer, scan.at)]
    /\ UNCHANGED <<budget, fileVars, cursor, refreshing, seen>>

\* After the last complete line the cursor moves on and the snapshot is published, which
\* differs from every one before in its generated_at.
EndScan ==
    /\ scan # None /\ scan.at = CompleteLength(scan.buffer, scan.start)
    /\ cursor' = scan.at
    /\ publish(<<"snapshot">>)
    /\ RefreshReturns
    /\ UNCHANGED <<budget, fileVars, rows, seen>>

\* The Kernel cannot be read, or a database write throws: the rest of the scan is left out.
RefreshFails ==
    /\ refreshing /\ Take("monitor")
    /\ publish(<<"monitor-health">>)
    /\ RefreshReturns
    /\ UNCHANGED <<fileVars, tailVars, seen>>

-----------------------------------------------------------------------------
(* The stream *)

\* The browser opens its stream, for the first time or after a cut; the handler awaits a
\* refresh, unless one is running, of which it does not wait for the end.
Connect ==
    /\ Take("monitor") /\ client.phase = "closed" /\ hub.sequence > 0 /\ scan = None
    /\ client' = [client EXCEPT !.phase = IF refreshing THEN "ready" ELSE "waiting"]
    /\ refreshing' = TRUE
    /\ UNCHANGED <<fileVars, tailVars, scan, hub, seen, lost>>

Ready == client.phase = "ready" \/ (client.phase = "waiting" /\ ~refreshing)

\* Mutant of OpenStream: the Last-Event-ID of the browser is not looked at.
OpenStreamAfresh ==
    /\ Ready /\ scan = None
    /\ client' = [client EXCEPT !.phase = "open", !.wire = <<[sequence |-> hub.sequence, kind |-> "snapshot"]>>]
    /\ UNCHANGED <<budget, fileVars, tailVars, refreshing, scan, hub, seen, lost>>

\* The current snapshot under the number of the latest event, the events since the one
\* the browser got last, and from here on everything that is published.
OpenStream ==
    /\ Ready /\ scan = None
    /\ client' = [client EXCEPT !.phase = "open",
                                !.wire = <<[sequence |-> hub.sequence, kind |-> "snapshot"]>> \o after(client.last)]
    /\ UNCHANGED <<budget, fileVars, tailVars, refreshing, scan, hub, seen, lost>>

Receive ==
    /\ client.phase = "open" /\ client.wire # <<>>
    /\ client' = [client EXCEPT !.wire = Tail(@), !.last = Head(client.wire).sequence]
    /\ seen' = seen \union Activities(<<Head(client.wire)>>)
    /\ UNCHANGED <<budget, fileVars, tailVars, refreshing, scan, hub, lost>>

\* The connection breaks.  What was on its way comes again after the next Connect, except
\* what the browser takes for older than the snapshot it got first.
CutStream ==
    /\ Take("monitor") /\ client.phase # "closed"
    /\ client' = Closed(client.last)
    /\ lost' = lost \union {n \in Activities(client.wire) \ seen : n <= client.last}
    /\ UNCHANGED <<fileVars, tailVars, refreshing, scan, hub, seen>>

\* The Monitor dies and is started again: its hub counts from 0, and the browser still
\* asks for what follows the last event of the old one.
RestartMonitor ==
    /\ Take("monitor") /\ hub.sequence > 0
    /\ hub' = [sequence |-> 0, events |-> <<>>]
    /\ refreshing' = TRUE /\ scan' = None
    /\ client' = Closed(client.last)
    /\ seen' = {} /\ lost' = 1 .. client.last
    /\ UNCHANGED <<fileVars, tailVars>>

-----------------------------------------------------------------------------
MonitorTypeOK ==
    /\ IsInjective(rows) /\ cursor \in Nat
    /\ client.phase \in {"closed", "waiting", "ready", "open"}
    /\ client.phase # "open" => client.wire = <<>>
    /\ Len(hub.events) <= Retention
    /\ \A i \in DOMAIN hub.events : hub.events[i].sequence = hub.sequence - Len(hub.events) + i
    /\ scan # None => refreshing

\* The complete lines of the session that show a text, by offset.
visible ==
    {n \in 0 .. CompleteLength(session, 0) - 1 :
        (n = 0 \/ session[n] = Newline) /\ parseSessionRecord(session, n) > 0}

\* SessionIsTailedOnce: while the session file only grows, the telemetry holds one event for
\* each visible line, in their order, and none is behind the cursor without one (scan),
\* whatever restarts and failed writes come between an event and the cursor.
SessionIsTailedOnce ==
    rewritten \/ ( /\ \A i, j \in DOMAIN rows : i < j => rows[i] < rows[j]
                   /\ ToSet(rows) \subseteq visible
                   /\ \A n \in visible, i \in DOMAIN rows : n < rows[i] => n \in ToSet(rows)
                   /\ \A n \in visible : n < cursor => n \in ToSet(rows) )

\* ClientsMissNothing: an activity that was published has reached the browser, is on its
\* way, or will be sent when the stream is opened again; only a restart of the Monitor, the
\* retention of the hub and a cut between the first snapshot and the replay lose any.
ClientsMissNothing ==
    \A n \in Activities(hub.events) :
        \/ n \in seen \union lost \union Activities(client.wire)
        \/ client.phase # "open" /\ n > client.last
=============================================================================
