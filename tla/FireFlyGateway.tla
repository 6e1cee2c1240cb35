--------------------------- MODULE FireFlyGateway ---------------------------
(***************************************************************************)
(* Operations of an organization through the FireFly gateway, and the      *)
(* events they leave: the API posts an operation and then logs it in the   *)
(* audit trail (firefly.controller.ts, firefly.service.ts), the gateway    *)
(* (mocks/firefly) keeps an event of it until it is asked for events, and  *)
(* the relay (relay/src/index.ts) asks every three seconds, whether or not *)
(* it was answered, and counts what it gets.  The order of the events of   *)
(* one answer makes no difference.                                         *)
(*                                                                         *)
(* Any of the three processes may restart, which forgets what it holds in  *)
(* memory, and any message may be lost or late.                            *)
(***************************************************************************)
EXTENDS Naturals

CONSTANTS Request,
          PoolRequest,     \* those that create token pools, without an event
          Poll             \* polls that can be in flight at once

ASSUME GatewayAssumption == PoolRequest \subseteq Request /\ Request # {} /\ Poll # {}

VARIABLES phase,           \* of each request in the API
          posts, answers,  \* messages between the API and the gateway
          executed,        \* requests the gateway executed
          audited,         \* rows of the audit trail
          events,          \* held by the gateway
          poll,            \* each poll, "orphan": the relay it is of is gone
          carried,         \* events in the answer to a poll
          counts,          \* how often each event was counted
          lost             \* history: events that no longer are anywhere

requestVars == <<phase, posts, answers, executed, audited>>
pollVars    == <<poll, carried, counts>>
gatewayVars == <<requestVars, events, pollVars, lost>>

GatewayTypeOK ==
    /\ phase \in [Request -> {"idle", "posting", "auditing", "answering", "done", "failed"}]
    /\ UNION {posts, answers, executed, audited} \subseteq Request
    /\ events \cup lost \subseteq executed
    /\ poll \in [Poll -> {"idle", "asking", "answering", "orphan"}]
    /\ carried \in [Poll -> SUBSET executed]
    /\ counts \in [Request -> 0..1]
    /\ \A q \in Poll : carried[q] # {} => poll[q] = "answering"

GatewayInit ==
    /\ phase = [r \in Request |-> "idle"]
    /\ posts = {} /\ answers = {} /\ executed = {} /\ audited = {}
    /\ events = {} /\ lost = {}
    /\ poll = [q \in Poll |-> "idle"] /\ carried = [q \in Poll |-> {}]
    /\ counts = [r \in Request |-> 0]

-----------------------------------------------------------------------------
(* The API.                                                                *)

Goto(r, from, to) == phase[r] = from /\ phase' = [phase EXCEPT ![r] = to]

\* The organization is found, and the operation posted.
Post(r) ==
    /\ Goto(r, "idle", "posting")
    /\ posts' = posts \cup {r}
    /\ UNCHANGED <<answers, executed, audited, events, pollVars, lost>>

\* Mutation: a post that timed out is logged like one that was answered.
Answered(r) ==
    /\ Goto(r, "posting", "auditing")
    /\ answers' = answers \ {r}
    /\ UNCHANGED <<posts, executed, audited, events, pollVars, lost>>

Receive(r) ==
    /\ r \in answers
    /\ Goto(r, "posting", "auditing")
    /\ answers' = answers \ {r}
    /\ UNCHANGED <<posts, executed, audited, events, pollVars, lost>>

\* Mutation: a post has no timeout.
FailWithoutTimeout(r) ==
    /\ \E before \in {"idle", "auditing"} : Goto(r, before, "failed")
    /\ UNCHANGED <<posts, answers, executed, audited, events, pollVars, lost>>

\* No organization, ten seconds without an answer, or an error of the database.
Fail(r) ==
    /\ \E before \in {"idle", "posting", "auditing"} : Goto(r, before, "failed")
    /\ UNCHANGED <<posts, answers, executed, audited, events, pollVars, lost>>

Audit(r) ==
    /\ Goto(r, "auditing", "answering")
    /\ audited' = audited \cup {r}
    /\ UNCHANGED <<posts, answers, executed, events, pollVars, lost>>

Reply(r) ==
    /\ Goto(r, "answering", "done")
    /\ UNCHANGED <<posts, answers, executed, audited, events, pollVars, lost>>

RestartAPI ==
    /\ phase' = [r \in Request |-> IF phase[r] \in {"posting", "auditing", "answering"}
                                   THEN "failed" ELSE phase[r]]
    /\ answers' = {}
    /\ UNCHANGED <<posts, executed, audited, events, pollVars, lost>>

-----------------------------------------------------------------------------
(* The gateway.                                                            *)

Execute(r) ==
    /\ r \in posts
    /\ posts' = posts \ {r}
    /\ executed' = executed \cup {r}
    /\ events' = events \cup ({r} \ PoolRequest)
    /\ answers' = IF phase[r] = "posting" THEN answers \cup {r} ELSE answers
    /\ UNCHANGED <<phase, audited, pollVars, lost>>

\* GET /events: the events are cleared when they are read.
GetEvents(q) ==
    /\ \/ /\ poll[q] = "asking"
          /\ poll' = [poll EXCEPT ![q] = "answering"]
          /\ carried' = [carried EXCEPT ![q] = events]
          /\ UNCHANGED lost
       \/ /\ poll[q] = "orphan"
          /\ poll' = [poll EXCEPT ![q] = "idle"]
          /\ lost' = lost \cup events
          /\ UNCHANGED carried
    /\ events' = {}
    /\ UNCHANGED <<requestVars, counts>>

RestartGateway ==
    /\ lost' = lost \cup events
    /\ events' = {}
    /\ posts' = {}
    /\ poll' = [q \in Poll |-> IF poll[q] \in {"asking", "orphan"} THEN "idle" ELSE poll[q]]
    /\ UNCHANGED <<phase, answers, executed, audited, carried, counts>>

-----------------------------------------------------------------------------
(* The relay.                                                              *)

StartPoll(q) ==
    /\ poll[q] = "idle"
    /\ poll' = [poll EXCEPT ![q] = "asking"]
    /\ UNCHANGED <<requestVars, events, carried, counts, lost>>

\* Mutation: an answer is processed only while no other poll is in flight.
CountAlone(q) ==
    /\ poll[q] = "answering"
    /\ \A other \in Poll \ {q} : poll[other] = "idle"
    /\ poll' = [poll EXCEPT ![q] = "idle"]
    /\ carried' = [carried EXCEPT ![q] = {}]
    /\ counts' = [r \in Request |-> counts[r] + (IF r \in carried[q] THEN 1 ELSE 0)]
    /\ UNCHANGED <<requestVars, events, lost>>

\* The loop over the events of an answer.
Count(q) ==
    /\ poll[q] = "answering"
    /\ poll' = [poll EXCEPT ![q] = "idle"]
    /\ carried' = [carried EXCEPT ![q] = {}]
    /\ counts' = [r \in Request |-> counts[r] + (IF r \in carried[q] THEN 1 ELSE 0)]
    /\ UNCHANGED <<requestVars, events, lost>>

\* Mutation: the answer of a failed poll is kept.
PollFailsKeepsAnswer(q) ==
    /\ poll[q] \in {"asking", "answering"}
    /\ poll' = [poll EXCEPT ![q] = IF poll[q] = "asking" THEN "orphan" ELSE "idle"]
    /\ UNCHANGED <<requestVars, events, carried, counts, lost>>

\* The poll ends in an error, which is logged.
PollFails(q) ==
    /\ poll[q] \in {"asking", "answering"}
    /\ poll' = [poll EXCEPT ![q] = IF poll[q] = "asking" THEN "orphan" ELSE "idle"]
    /\ lost' = lost \cup carried[q]
    /\ carried' = [carried EXCEPT ![q] = {}]
    /\ UNCHANGED <<requestVars, events, counts>>

\* Mutation: a relay that restarts has every event again.
RestartRelayReplays ==
    /\ poll' = [q \in Poll |-> "idle"] /\ carried' = [q \in Poll |-> {}]
    /\ lost' = lost \cup UNION {carried[q] : q \in Poll}
    /\ events' = events \cup {r \in Request : counts[r] = 1}
    /\ counts' = [r \in Request |-> 0]
    /\ UNCHANGED requestVars

RestartRelay ==
    /\ poll' = [q \in Poll |-> CASE poll[q] = "asking"    -> "orphan"
                                 [] poll[q] = "answering" -> "idle"
                                 [] OTHER                 -> poll[q]]
    /\ lost' = lost \cup UNION {carried[q] : q \in Poll}
    /\ carried' = [q \in Poll |-> {}]
    /\ UNCHANGED <<requestVars, events, counts>>

-----------------------------------------------------------------------------
Work(r) == Receive(r) \/ Fail(r) \/ Audit(r) \/ Reply(r)

GatewayNext ==
    \/ \E r \in Request : Post(r) \/ Work(r) \/ Execute(r)
    \/ \E q \in Poll : GetEvents(q) \/ StartPoll(q) \/ Count(q) \/ PollFails(q)
    \/ RestartAPI \/ RestartGateway \/ RestartRelay

\* Each server goes on with what it has begun, and the relay keeps polling.
GatewayFairness ==
    /\ \A r \in Request : WF_gatewayVars(phase[r] # "idle" /\ Work(r))
    /\ \A q \in Poll : /\ WF_gatewayVars(GetEvents(q)) /\ WF_gatewayVars(StartPoll(q))
                       /\ WF_gatewayVars(Count(q))

GatewaySpec == GatewayInit /\ [][GatewayNext]_gatewayVars /\ GatewayFairness

-----------------------------------------------------------------------------
\* The audit trail is of operations that were executed, and has every one the
\* user was told of, whatever was retried, late or restarted.
TrailIsTrue == audited \subseteq executed /\ \A r \in Request : phase[r] = "done" => r \in audited

Feed == INSTANCE EventFeed WITH Event <- Request \ PoolRequest,
                                published <- executed \ PoolRequest,
                                deliveries <- [r \in Request \ PoolRequest |-> counts[r]]

\* Gateway, network and relay together are a feed: at most once.
ImplementsFeed == Feed!Spec

\* An event is counted in the end, unless it is lost.
EventsDrain ==
    \A r \in Request : r \in executed \ PoolRequest ~> counts[r] = 1 \/ r \in lost

\* Every request of a user ends.
RequestsEnd == \A r \in Request : phase[r] = "posting" ~> phase[r] \in {"done", "failed"}
=============================================================================
