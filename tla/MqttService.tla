------------------------------ MODULE MqttService ------------------------------
(***************************************************************************)
(* MqttService and NetworkManager as NetworkTask drives them: a cycle      *)
(* submits a telemetry record or not; NetworkManager's tick() looks after  *)
(* the Wi-Fi; then MqttService's reconnects or keeps the session alive and *)
(* replays buffered records.  The access point, the broker and the TCP     *)
(* connection may change between any two steps of a cycle.                 *)
(*                                                                         *)
(* A connection that died without a word is "stale": connected() and       *)
(* publish() still succeed, and what is published goes nowhere.            *)
(*                                                                         *)
(* Records are numbered in the order they are submitted.  Only the age of  *)
(* lastAttemptMs_ matters, so the model keeps nowMs - lastAttemptMs_, a    *)
(* uint32 that wraps at Wrap.  reconnectCount_, which is only reported, is *)
(* left out.                                                               *)
(***************************************************************************)
EXTENDS TelemetryBuffer, NetworkManager, FiniteSets

CONSTANTS mqttReconnectIntervalMs, mqttDrainPerLoop, MaxCycle

ASSUME MqttAssumption ==
  /\ IsFiniteSet(Record) /\ Record = 1 .. Cardinality(Record)
  /\ mqttReconnectIntervalMs \in 1 .. Wrap - MaxCycle
  /\ mqttDrainPerLoop \in Nat \ {0}
  /\ MaxCycle \in Nat \ {0}

VARIABLES
  broker,         \* is it up?
  link,           \* the TCP connection: "none", "open" or "stale"
  session,        \* does the broker hold a session, with its last will?
  status,         \* what it shows: "online", or "offline" or nothing
  attemptAge,     \* nowMs - lastAttemptMs_
  pc, sent,       \* where NetworkTask is in its cycle, and the loop counter of tick()
  submitted,      \* number of records submitted so far
  delivered,      \* what the broker received, in order
  swallowed,      \* records published on a stale connection
  evicted         \* records pushed out of the buffer

envVars == <<wifiVars, broker, link, session, status>>
sentVars == <<delivered, swallowed>>
vars == <<bufferVars, envVars, attemptAge, pc, sent, submitted, sentVars, evicted>>

Init ==
  /\ BufferInit
  /\ WifiInit
  /\ broker = TRUE /\ link = "none" /\ session = FALSE /\ status = "offline"
  /\ attemptAge = 0
  /\ pc = "submit" /\ sent = 0
  /\ submitted = 0
  /\ delivered = <<>> /\ swallowed = {} /\ evicted = {}

-----------------------------------------------------------------------------
connected == link # "none"

\* PubSubClient::publish: ok is its result.  It may fail on an open connection
\* whose send buffer is full.
Publish(r, ok) ==
  \/ ok /\ link = "open" /\ delivered' = Append(delivered, r) /\ UNCHANGED swallowed
  \/ ok /\ link = "stale" /\ swallowed' = swallowed \cup {r} /\ UNCHANGED delivered
  \/ ~ok /\ UNCHANGED sentVars

submitTelemetry(r) ==
  \/ Publish(r, TRUE) /\ UNCHANGED <<bufferVars, evicted>>
  \/ /\ Publish(r, FALSE)
     /\ push(r)
     /\ evicted' = IF full THEN evicted \cup {peek} ELSE evicted

\* A cycle in which a record is due, and one in which none is.  The cycle takes
\* some time; now is the same for both ticks.
BeginCycle ==
  /\ pc = "submit"
  /\ pc' = "network"
  /\ \E d \in 1 .. MaxCycle :
       /\ attemptAge' = (attemptAge + d) % Wrap
       /\ wifiAge' = (wifiAge + d) % Wrap
  /\ UNCHANGED <<accessPoint, wifi, broker, link, session, status, sent>>

CycleWithRecord ==
  /\ BeginCycle
  /\ submitted < Cardinality(Record)
  /\ submitted' = submitted + 1
  /\ submitTelemetry(submitted')

CycleWithout ==
  /\ BeginCycle
  /\ UNCHANGED <<bufferVars, submitted, sentVars, evicted>>

TickNetwork ==
  /\ pc = "network" /\ pc' = "tick"
  /\ NetworkTick
  /\ UNCHANGED <<bufferVars, broker, link, session, status, attemptAge, sent, submitted, sentVars, evicted>>

-----------------------------------------------------------------------------
\* tick(), up to its loop.  It returns at once without Wi-Fi, or without a
\* session before the reconnect interval is over.
TickReturns ==
  /\ pc = "tick"
  /\ wifi # "up" \/ (~connected /\ attemptAge < mqttReconnectIntervalMs)
  /\ pc' = "submit"
  /\ UNCHANGED <<bufferVars, envVars, attemptAge, sent, submitted, sentVars, evicted>>

\* What the broker shows when a session ends without a DISCONNECT.  Mutated form:
\* connect() is called without a last will.
lastWillNone == status
lastWill == "offline"

\* The broker begins a session, and ends the one of before if it still holds it.
SessionBegins ==
  /\ broker
  /\ session' = TRUE
  /\ status' = IF session THEN lastWill ELSE status

\* An attempt to connect.  It may fail although the broker is there, before the
\* broker has begun a session or after, when its answer does not arrive in time.
TickConnects ==
  /\ pc = "tick"
  /\ wifi = "up" /\ ~connected /\ attemptAge >= mqttReconnectIntervalMs
  /\ attemptAge' = 0
  /\ \/ SessionBegins /\ link' = "open" /\ pc' = "announce"
     \/ (SessionBegins \/ UNCHANGED <<session, status>>) /\ UNCHANGED link /\ pc' = "submit"
  /\ UNCHANGED <<bufferVars, wifiVars, broker, sent, submitted, sentVars, evicted>>

\* The retained "online" is published, or lost: the result is not looked at.
Announce ==
  /\ pc = "announce" /\ pc' = "drain"
  /\ (link = "open" /\ status' = "online") \/ UNCHANGED status
  /\ UNCHANGED <<bufferVars, wifiVars, broker, link, session, attemptAge, sent, submitted, sentVars, evicted>>

\* A session is kept alive by loop().  Mutated form: the buffer is replayed only
\* after a reconnect.
TickLoopsOnly ==
  /\ pc = "tick"
  /\ wifi = "up" /\ connected
  /\ pc' = "submit"
  /\ UNCHANGED <<bufferVars, envVars, attemptAge, sent, submitted, sentVars, evicted>>
TickLoops ==
  /\ pc = "tick"
  /\ wifi = "up" /\ connected
  /\ pc' = "drain"
  /\ UNCHANGED <<bufferVars, envVars, attemptAge, sent, submitted, sentVars, evicted>>

\* Mutated form of DrainOne: the record is discarded whether or not it was
\* published.
DrainOneUnchecked ==
  /\ pc = "drain" /\ sent < mqttDrainPerLoop /\ ~empty
  /\ \E ok \in BOOLEAN : Publish(peek, ok)
  /\ discardOldest
  /\ sent' = sent + 1
  /\ UNCHANGED <<envVars, attemptAge, pc, submitted, evicted>>

\* One turn of the loop: peek, publish, discard.
DrainOne ==
  /\ pc = "drain" /\ sent < mqttDrainPerLoop /\ ~empty
  /\ Publish(peek, TRUE)
  /\ discardOldest
  /\ sent' = sent + 1
  /\ UNCHANGED <<envVars, attemptAge, pc, submitted, evicted>>

\* The loop ends: the limit, an empty buffer or a publish that fails.
DrainEnds ==
  /\ pc = "drain"
  /\ pc' = "submit" /\ sent' = 0
  /\ UNCHANGED <<bufferVars, envVars, attemptAge, submitted, sentVars, evicted>>

NetworkTask ==
  \/ CycleWithRecord \/ CycleWithout \/ TickNetwork
  \/ TickReturns \/ TickConnects \/ Announce \/ TickLoops \/ DrainOne \/ DrainEnds

-----------------------------------------------------------------------------
\* The environment.  A connection ends with notice or without.
LinkBreaks == IF link = "open" THEN link' \in {"none", "stale"} ELSE UNCHANGED link

WifiChanges ==
  \/ (Joined \/ JoinFails) /\ UNCHANGED <<broker, link, session, status>>
  \/ AccessPointChanges /\ LinkBreaks /\ UNCHANGED <<broker, session, status>>

\* A broker that stops forgets its sessions and what it showed.
BrokerChanges ==
  /\ broker' = ~broker
  /\ LinkBreaks
  /\ session' = FALSE /\ status' = "offline"
  /\ UNCHANGED wifiVars

\* The keep-alive of the client finds a stale connection dead.
StaleDetected ==
  /\ link = "stale"
  /\ link' = "none"
  /\ UNCHANGED <<wifiVars, broker, session, status>>

\* The broker finds its client gone and publishes the last will.
SessionExpires ==
  /\ session /\ link # "open"
  /\ session' = FALSE /\ status' = lastWill
  /\ UNCHANGED <<wifiVars, broker, link>>

Environment ==
  /\ WifiChanges \/ BrokerChanges \/ StaleDetected \/ SessionExpires
  /\ UNCHANGED <<bufferVars, attemptAge, pc, sent, submitted, sentVars, evicted>>

Next == NetworkTask \/ Environment

\* NetworkTask keeps running; both sides find a dead connection in the end; a join
\* that is tried again and again succeeds, as long as the access point is there, and
\* so does connecting, as long as Wi-Fi and broker are there; a send buffer that is
\* full again and again is also free again and again.
Fairness ==
  /\ WF_vars(NetworkTask)
  /\ WF_vars(Environment /\ StaleDetected)
  /\ WF_vars(Environment /\ SessionExpires)
  /\ SF_vars(Environment /\ Joined)
  /\ SF_vars(TickConnects /\ link' = "open")
  /\ SF_vars(DrainOne)

Spec == Init /\ [][Next]_vars /\ Fairness

-----------------------------------------------------------------------------
Buffered == {Contents[i] : i \in 1 .. count}
Received == {delivered[i] : i \in 1 .. Len(delivered)}

TypeOK ==
  /\ BufferTypeOK
  /\ WifiTypeOK
  /\ broker \in BOOLEAN /\ link \in {"none", "open", "stale"}
  /\ session \in BOOLEAN /\ status \in {"offline", "online"}
  /\ attemptAge \in 0 .. Wrap - 1
  /\ pc \in {"submit", "network", "tick", "announce", "drain"} /\ sent \in 0 .. mqttDrainPerLoop
  /\ submitted \in 0 .. Cardinality(Record)
  /\ delivered \in Seq(Record)
  /\ swallowed \subseteq Record /\ evicted \subseteq Record

\* Every record submitted is in one place only: received once by the broker,
\* gone with a connection that had died, waiting in the buffer, or dropped from
\* it; and the two counters that are reported say how many wait and how many
\* were dropped.
RecordsAccountedFor ==
  /\ Received \cup swallowed \cup Buffered \cup evicted = 1 .. submitted
  /\ Len(delivered) + Cardinality(swallowed) + count + Cardinality(evicted) = submitted
  /\ droppedCount = Cardinality(evicted)

\* The buffer keeps the newest measurements in the order they were taken, also
\* after records were replayed, overtaken by live ones and dropped: what waits
\* is in order, and is newer than all that was dropped.
NewestAreKept ==
  /\ \A i, j \in 1 .. count : i < j => Contents[i] < Contents[j]
  /\ \A e \in evicted : \A b \in Buffered : e < b

\* An outage ends: once the access point and the broker stay up, Wi-Fi is joined,
\* the session is re-established and the offline buffer is emptied for good.
BacklogIsReplayed == <>[](accessPoint /\ broker) => <>[](link = "open" /\ empty)

\* docs/mqtt-telemetry.md, "Online and offline status": a device that is gone for
\* good is not shown online by a broker that stays, however it went and whatever
\* became of its earlier sessions.
OutageIsShown == <>[](broker /\ link # "open") => <>[](status = "offline")
=============================================================================
