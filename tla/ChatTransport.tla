---------------------------- MODULE ChatTransport ----------------------------
(***************************************************************************)
(* The chat transport's core thread at two peers (crates/chat/src/          *)
(* transport.rs, struct Core): handshakes started by either side or both,   *)
(* the session each side holds and the unproven one beside it, TCP links     *)
(* dialled by both at once and the one each side keeps, the relay, and the  *)
(* messages in flight with their retries, acknowledgements and verdicts.    *)
(*                                                                         *)
(* One identity a peer, whose number is the order of its fingerprint.  A    *)
(* session's key is the pair of ephemerals it was made from: what one side  *)
(* seals, the other opens under the same pair only.  Deadlines may pass at  *)
(* any moment.  A frame that arrives behind a later counter is dropped like *)
(* one that is lost, and a link that overflows is one that breaks just      *)
(* before the frame is handed to it.                                        *)
(***************************************************************************)
EXTENDS Naturals, Sequences, FiniteSets

CONSTANTS
    Links,           \* bound: TCP connections of a behaviour
    Mids,            \* message ids
    Author,          \* who sends each message
    Relay,           \* the relay, as a way for frames
    MaxSendAttempts, \* MAX_SEND_ATTEMPTS
    MaxOutstanding,  \* MAX_OUTSTANDING_PER_SESSION
    MaxEphemerals,   \* bound: handshakes started or answered
    MaxFaults,       \* bound: links that break by themselves, frames the relay refuses or loses,
                     \* goodbyes, further addresses, returns of the relay, pings
    None             \* absent

Peers == {1, 2}
Other(p) == 3 - p
Ways == Links \cup {Relay}

ASSUME AuthorAssumption == Author \in [Mids -> Peers]
ASSUME BoundsAssumption ==
    /\ Relay \notin Links /\ None \notin Ways
    /\ {MaxSendAttempts, MaxOutstanding} \subseteq Nat \ {0}
    /\ {MaxEphemerals, MaxFaults} \subseteq Nat

\* Session: its key, the messages in flight with their attempts and the way each went
\* out on, the ids already shown and the ephemerals accepted.
Keys     == Nat \X Nat
Flights  == [attempts : Nat, route : Ways \cup {None}]
Sessions == [key : Keys, out : UNION {[ms -> Flights] : ms \in SUBSET Mids},
             seen : SUBSET Mids, ephs : SUBSET Nat]

ASSUME NoneAssumption == None \notin Sessions

VARIABLES
    sess,      \* sessions: one of Sessions, or None
    prov,      \* provisional: [key, link] or None
    pend,      \* pendings: the ephemeral of the initiation that is out, or None
    plink,     \* peer_link
    dialing,   \* dialing
    lan,       \* lan_peers: an address of the other peer is known
    relay,     \* relay_up
    link,      \* each connection: who dialled it, who still has it, who knows whose it is
    chan,      \* frames on their way, by way and addressee
    eph,       \* ephemerals made so far
    verdict,   \* the Delivery events: each message's last
    sent,      \* history: attempts at each message
    emitted,   \* history: Message events of each message
    forgotten, \* history: messages seen in a session the addressee has ended
    faults     \* MaxFaults counts them

core    == <<sess, prov, pend, plink, dialing, lan, relay>>
network == <<link, chan>>
history == <<verdict, sent, emitted, forgotten>>
vars    == <<core, network, eph, history, faults>>

Init ==
    /\ sess = [p \in Peers |-> None] /\ prov = [p \in Peers |-> None]
    /\ pend = [p \in Peers |-> None] /\ plink = [p \in Peers |-> None]
    /\ dialing = [p \in Peers |-> FALSE] /\ lan = [p \in Peers |-> TRUE]
    /\ relay \in {[p \in Peers |-> up] : up \in BOOLEAN} \* with or without a relay
    /\ link = [l \in Links |-> [by |-> None, open |-> {}, known |-> {}]]
    /\ chan = [l \in Ways |-> [p \in Peers |-> <<>>]]
    /\ eph = 0
    /\ verdict = [m \in Mids |-> "none"] /\ sent = [m \in Mids |-> 0]
    /\ emitted = [m \in Mids |-> 0] /\ forgotten = {}
    /\ faults = 0

------------------------------------------------------------------------------
(* Routes and links.                                                        *)

\* route: the link that is kept, unless it is gone from the links lk, else the relay;
\* a frame that has neither starts a dial when an address is known.
Live(p, pl, lk) == IF pl # None /\ p \in lk[pl].open THEN pl ELSE None
Path(p, pl)  == IF pl # None THEN pl ELSE IF relay[p] THEN Relay ELSE None
Dials(p, pl) == Path(p, pl) = None /\ lan[p]

\* A frame of p's put on way l; lost when the other side has closed it.
Put(ch, l, p, frame) ==
    IF l = Relay \/ (l # None /\ Other(p) \in link[l].open)
    THEN [ch EXCEPT ![l][Other(p)] = Append(@, frame)] ELSE ch

\* link_is_canonical: dialled by the lower fingerprint; one that is gone counts as the
\* other's.
Has(p, l) == p \in link[l].open
link_is_canonical(p, l) == (Has(p, l) /\ link[l].by = p) = (p < Other(p))

\* associate_link of a link l that is new to p: the link p keeps, and the one it
\* closes for that.  A session's link is not surrendered while it is there.
Guarded(p) == sess[p] # None /\ Has(p, plink[p])
Keeps(p, l) ==
    IF plink[p] # None /\ (Guarded(p) \/ link_is_canonical(p, plink[p]))
    THEN plink[p] ELSE l
Shuts(p, l) ==
    IF plink[p] # None /\ ~Guarded(p) THEN {l, plink[p]} \ {Keeps(p, l)} ELSE {}

\* The same for the link l of a frame, if it is open and not yet associated.
News(p, l) == l # Relay /\ p \in link[l].open /\ p \notin link[l].known
Kept(p, l) == IF News(p, l) THEN Keeps(p, l) ELSE plink[p]
Shut(p, l) == IF News(p, l) THEN Shuts(p, l) ELSE {}

\* The links once p has associated l and closed the ones in shut.
Marked(p, l, shut) ==
    [k \in Links |->
        [link[k] EXCEPT !.known = IF k = l /\ p \in link[k].open THEN @ \cup {p} ELSE @,
                        !.open  = IF k \in shut THEN @ \ {p} ELSE @]]

------------------------------------------------------------------------------
(* Sessions and verdicts.                                                   *)

Empty == [m \in {} |-> None]
Session(key, out, seen, ephs) == [key |-> key, out |-> out, seen |-> seen, ephs |-> ephs]
Out(p) == IF sess[p] = None THEN {} ELSE DOMAIN sess[p].out

Without(s, ms) == [s EXCEPT !.out = [m \in DOMAIN @ \ ms |-> @[m]]]

\* settle, for the messages ms of p that are still outstanding.
Settle(p, ms, state) ==
    [m \in Mids |-> IF m \in ms \cap Out(p) THEN state ELSE verdict[m]]

\* Mutant: the attempts are counted afresh.
CarriedAfresh(p) ==
    IF sess[p] = None THEN Session(None, Empty, {}, {})
    ELSE [sess[p] EXCEPT !.out = [m \in DOMAIN @ |-> [@[m] EXCEPT !.attempts = 0]]]

\* Mutant: the ids already shown are not carried.
CarriedUnseen(p) ==
    IF sess[p] = None THEN Session(None, Empty, {}, {})
    ELSE [sess[p] EXCEPT !.seen = {}]

\* take_carryover: what a session hands to the one that replaces it.
Carried(p) ==
    IF sess[p] = None THEN Session(None, Empty, {}, {}) ELSE sess[p]

\* Mutant: the session is dropped, its messages are not.
EndSilently(p) ==
    /\ sess' = [sess EXCEPT ![p] = None]
    /\ forgotten' = IF sess[p] = None THEN forgotten ELSE forgotten \cup sess[p].seen
    /\ UNCHANGED verdict

\* end_session: a verdict for everything in flight.
EndSession(p) ==
    /\ sess' = [sess EXCEPT ![p] = None]
    /\ forgotten' = IF sess[p] = None THEN forgotten ELSE forgotten \cup sess[p].seen
    /\ verdict' = Settle(p, Out(p), "failed")

------------------------------------------------------------------------------
(* The application.                                                         *)

\* on_open_session.
OpenSession(p) ==
    LET pl == Live(p, plink[p], link)
    IN  /\ sess[p] = None /\ pend[p] = None /\ eph < MaxEphemerals
        /\ eph' = eph + 1
        /\ pend' = [pend EXCEPT ![p] = IF Path(p, pl) # None \/ lan[p] THEN eph + 1 ELSE None]
        /\ plink' = [plink EXCEPT ![p] = pl]
        /\ chan' = Put(chan, Path(p, pl), p, [kind |-> "init", eph |-> eph + 1])
        /\ dialing' = [dialing EXCEPT ![p] = @ \/ Dials(p, pl)]
        /\ UNCHANGED <<sess, prov, lan, relay, link, history, faults>>

\* CloseSession; the unproven session stays.
CloseSession(p) ==
    /\ sess[p] # None \/ pend[p] # None
    /\ EndSession(p)
    /\ pend' = [pend EXCEPT ![p] = None]
    /\ UNCHANGED <<prov, plink, dialing, lan, relay, network, eph, sent, emitted, faults>>

\* attempt_send of m in session s of p: sealed, and handed to a route or failed.
AttemptSend(p, s, m) ==
    LET pl  == Live(p, plink[p], link)
        way == Path(p, pl)
    IN  /\ sent' = [sent EXCEPT ![m] = @ + 1]
        /\ chan' = Put(chan, way, p, [kind |-> "msg", key |-> s.key, mid |-> m])
        /\ dialing' = [dialing EXCEPT ![p] = @ \/ Dials(p, pl)]
        /\ plink' = [plink EXCEPT ![p] = pl]
        /\ IF way # None
           THEN /\ sess' = [sess EXCEPT ![p] =
                       [s EXCEPT !.out[m] = [attempts |-> @.attempts + 1, route |-> way]]]
                /\ verdict' = [verdict EXCEPT ![m] = "sending"]
           ELSE /\ sess' = [sess EXCEPT ![p] = Without(s, {m})]
                /\ verdict' = [verdict EXCEPT ![m] = "failed"]

\* on_send_text: registered before it goes anywhere; refused past the cap.
SendText(p, m) ==
    /\ Author[m] = p /\ verdict[m] = "none"
    /\ sess[p] # None /\ Cardinality(Out(p)) < MaxOutstanding
    /\ AttemptSend(p, [sess[p] EXCEPT !.out = [k \in Out(p) \cup {m} |->
           IF k = m THEN [attempts |-> 0, route |-> None] ELSE @[k]]], m)
    /\ UNCHANGED <<prov, pend, lan, relay, link, eph, emitted, forgotten, faults>>

------------------------------------------------------------------------------
(* The core's tick.                                                         *)

\* reap_unacknowledged: another attempt, or NoAck.
Retry(p, m) ==
    /\ m \in Out(p) /\ sess[p].out[m].attempts < MaxSendAttempts
    /\ AttemptSend(p, sess[p], m)
    /\ UNCHANGED <<prov, pend, lan, relay, link, eph, emitted, forgotten, faults>>

GiveUp(p, m) ==
    /\ m \in Out(p) /\ sess[p].out[m].attempts >= MaxSendAttempts
    /\ sess' = [sess EXCEPT ![p] = Without(@, {m})]
    /\ verdict' = Settle(p, {m}, "failed")
    /\ UNCHANGED <<prov, pend, plink, dialing, lan, relay, network, eph, sent, emitted, forgotten,
                   faults>>

\* probe_quiet_sessions: a ping, and the end of a session silent through two.
Probe(p) ==
    LET pl == Live(p, plink[p], link)
    IN  /\ sess[p] # None /\ faults < MaxFaults /\ faults' = faults + 1
        /\ plink' = [plink EXCEPT ![p] = pl]
        /\ chan' = Put(chan, Path(p, pl), p, [kind |-> "ping", key |-> sess[p].key])
        /\ dialing' = [dialing EXCEPT ![p] = @ \/ Dials(p, pl)]
        /\ UNCHANGED <<sess, prov, pend, lan, relay, link, eph, history>>

ProbeDead(p) ==
    /\ sess[p] # None
    /\ EndSession(p)
    /\ UNCHANGED <<prov, pend, plink, dialing, lan, relay, network, eph, sent, emitted, faults>>

\* PROVISIONAL_TTL: a candidate that is too old is not used any more.
Expire(p) ==
    /\ prov[p] # None
    /\ prov' = [prov EXCEPT ![p] = None]
    /\ UNCHANGED <<sess, pend, plink, dialing, lan, relay, network, eph, history, faults>>

------------------------------------------------------------------------------
(* Discovery, dials and links.                                              *)

\* on_discovery_event: an address, the first or another, which is dialled for an
\* initiation that is out; a goodbye, which a live session outweighs.
Resolved(p) ==
    /\ ~lan[p] \/ (pend[p] # None /\ ~dialing[p])
    /\ lan' = [lan EXCEPT ![p] = TRUE]
    /\ IF lan[p] THEN faults < MaxFaults /\ faults' = faults + 1 ELSE UNCHANGED faults
    /\ dialing' = [dialing EXCEPT ![p] = @ \/ pend[p] # None]
    /\ UNCHANGED <<sess, prov, pend, plink, relay, network, eph, history>>

Removed(p) ==
    /\ lan[p] /\ sess[p] = None /\ faults < MaxFaults
    /\ lan' = [lan EXCEPT ![p] = FALSE] /\ faults' = faults + 1
    /\ UNCHANGED <<sess, prov, pend, plink, dialing, relay, network, eph, history>>

\* on_outbound_connected, refused by the one address.
ConnectFails(p) ==
    /\ dialing[p] /\ dialing' = [dialing EXCEPT ![p] = FALSE]
    /\ pend' = [pend EXCEPT ![p] = None]
    /\ UNCHANGED <<sess, prov, plink, lan, relay, network, eph, history, faults>>

\* on_outbound_connected: a link nobody waits for is closed; on the other the
\* initiation goes out, or with a live session a new one.
Connect(p, l) ==
    LET fresh == pend[p] = None /\ sess[p] # None
        mine  == IF fresh THEN eph + 1 ELSE pend[p]
        new   == [by |-> p, open |-> Peers, known |-> {p}]
        keeps == Live(p, Keeps(p, l), link')
        way   == Path(p, keeps)
        frame == [kind |-> "init", eph |-> mine]
    IN  /\ dialing[p] /\ link[l].by = None
        /\ fresh => eph < MaxEphemerals
        /\ IF mine = None
           THEN /\ link' = [link EXCEPT ![l] = [new EXCEPT !.open = {Other(p)}, !.known = {}]]
                /\ dialing' = [dialing EXCEPT ![p] = FALSE]
                /\ UNCHANGED <<pend, plink, chan, eph>>
           ELSE /\ link' = [k \in Links |->
                       LET was == IF k = l THEN new ELSE link[k]
                       IN  [was EXCEPT !.open = IF k \in Shuts(p, l) THEN @ \ {p} ELSE @]]
                /\ plink' = [plink EXCEPT ![p] = keeps]
                /\ pend' = [pend EXCEPT ![p] = IF way # None \/ lan[p] THEN mine ELSE None]
                /\ dialing' = [dialing EXCEPT ![p] = Dials(p, keeps)]
                /\ eph' = IF fresh THEN eph + 1 ELSE eph
                /\ chan' = IF keeps = l THEN [chan EXCEPT ![l][Other(p)] = Append(@, frame)]
                           ELSE Put(chan, way, p, frame)
        /\ UNCHANGED <<sess, prov, lan, relay, history, faults>>

\* remove_link after the other side closed it or it broke: what went out on it
\* waits for another attempt, or has failed when there is no route left.
LinkDead(p, l) ==
    LET left  == IF plink[p] = l THEN None ELSE plink[p]
        lost  == IF p \in link[l].known /\ left = None /\ ~lan[p] /\ ~relay[p]
                 THEN {m \in Out(p) : sess[p].out[m].route = l} ELSE {}
    IN  /\ p \in link[l].open
        /\ IF Other(p) \in link[l].open THEN faults < MaxFaults /\ faults' = faults + 1
           ELSE UNCHANGED faults
        /\ link' = [link EXCEPT ![l].open = @ \ {p}]
        /\ plink' = [plink EXCEPT ![p] = left]
        /\ sess' = IF lost = {} THEN sess ELSE [sess EXCEPT ![p] = Without(@, lost)]
        /\ verdict' = Settle(p, lost, "failed")
        /\ UNCHANGED <<prov, pend, dialing, lan, relay, chan, eph, sent, emitted, forgotten>>

\* Frames on a link that has been closed, or on the relay, get lost.
Lose(p, l) ==
    /\ chan[l][p] # <<>>
    /\ IF l = Relay /\ relay[p] THEN faults < MaxFaults /\ faults' = faults + 1
       ELSE (l # Relay => link[l].open # Peers) /\ UNCHANGED faults
    /\ chan' = [chan EXCEPT ![l][p] = <<>>]
    /\ UNCHANGED <<core, link, eph, history>>

------------------------------------------------------------------------------
(* Frames.                                                                  *)

Head1(p, l) == Head(chan[l][p])
Rest(p, l)  == [chan EXCEPT ![l][p] = Tail(@)]
Arrives(p, l, kinds) ==
    chan[l][p] # <<>> /\ Head1(p, l).kind \in kinds /\ (l = Relay => relay[p])

\* A handshake frame at p on l, after associate_link.
Associated(p, l) == link' = IF l = Relay THEN link ELSE Marked(p, l, Shut(p, l))
Linked(p, l) == Associated(p, l) /\ plink' = [plink EXCEPT ![p] = Kept(p, l)]

\* on_handshake_frame, an initiation that is not answered: ours is out and lower,
\* or its ephemeral has been accepted before.
Ignored(p) == pend[p] # None /\ p < Other(p)
Replayed(p, e) == sess[p] # None /\ e \in sess[p].ephs

InitIgnored(p, l) ==
    /\ Arrives(p, l, {"init"})
    /\ LET e == Head1(p, l).eph
       IN  /\ Ignored(p) \/ Replayed(p, e)
           /\ pend' = IF Ignored(p) THEN pend ELSE [pend EXCEPT ![p] = None]
    /\ Linked(p, l)
    /\ chan' = Rest(p, l)
    /\ UNCHANGED <<sess, prov, dialing, lan, relay, eph, history, faults>>

\* become_responder: the answer goes back on the link of the initiation while it is
\* open; beside a session the new one waits for its proof, unless another waits.
InitAnswered(p, l) ==
    /\ Arrives(p, l, {"init"}) /\ eph < MaxEphemerals
    /\ Associated(p, l)
    /\ LET e    == Head1(p, l).eph
           key  == <<e, eph + 1>>
           back == l # Relay /\ p \in link'[l].open
           pl   == IF back THEN Kept(p, l) ELSE Live(p, Kept(p, l), link')
           way  == IF back THEN l ELSE Path(p, pl)
           goes == way # None \/ lan[p]
       IN  /\ ~Ignored(p) /\ ~Replayed(p, e)
           /\ plink' = [plink EXCEPT ![p] = pl]
           /\ chan' = Put(Rest(p, l), way, p, [kind |-> "resp", eph |-> eph + 1])
           /\ dialing' = [dialing EXCEPT ![p] = @ \/ (way = None /\ lan[p])]
           /\ sess' = IF goes /\ sess[p] = None
                      THEN [sess EXCEPT ![p] = Session(key, Empty, {}, {e})] ELSE sess
           /\ prov' = IF goes /\ sess[p] # None /\ prov[p] = None
                      THEN [prov EXCEPT ![p] = [key |-> key, link |-> l]] ELSE prov
    /\ pend' = [pend EXCEPT ![p] = None]
    /\ eph' = eph + 1
    /\ UNCHANGED <<lan, relay, history, faults>>

\* complete_pending: any answer completes the initiation that is out; one to
\* nothing is ignored.
RespArrives(p, l) ==
    /\ Arrives(p, l, {"resp"})
    /\ Linked(p, l)
    /\ chan' = Rest(p, l)
    /\ LET r == Head1(p, l).eph
           c == Carried(p)
       IN  sess' = IF pend[p] = None THEN sess
                   ELSE [sess EXCEPT ![p] =
                            Session(<<pend[p], r>>, c.out, c.seen, c.ephs \cup {r})]
    /\ pend' = [pend EXCEPT ![p] = None]
    /\ UNCHANGED <<prov, dialing, lan, relay, eph, history, faults>>

\* on_payload_frame: the session that opens it, and what the links are then.  The
\* candidate proves itself on its own link only, and moves the route there.
Opens(p, f) == sess[p] # None /\ sess[p].key = f.key
Proves(p, l, f) ==
    /\ ~Opens(p, f) /\ prov[p] # None
    /\ l # Relay /\ prov[p].link = l /\ prov[p].key = f.key

\* The link kept, and the links closed, once p has opened f on l.
KeptBy(p, l, f) == IF Proves(p, l, f) THEN l ELSE Kept(p, l)
ShutBy(p, l, f) ==
    Shut(p, l) \cup (IF Proves(p, l, f) THEN {Kept(p, l)} \ {l, None} ELSE {})

Opened(p, l, f) ==
    /\ Opens(p, f) \/ Proves(p, l, f)
    /\ link' = IF l = Relay THEN link ELSE Marked(p, l, ShutBy(p, l, f))
    /\ prov' = IF Proves(p, l, f) THEN [prov EXCEPT ![p] = None] ELSE prov

\* The session that opened f, with what it took over.
Now(p, f) == [Carried(p) EXCEPT !.key = f.key]

\* f calls for no answer, or for one that send_control sends, best effort.
Quietly(p, l, f) ==
    /\ plink' = [plink EXCEPT ![p] = KeptBy(p, l, f)]
    /\ chan' = Rest(p, l)
    /\ UNCHANGED dialing
Control(p, l, f, frame) ==
    LET pl == Live(p, KeptBy(p, l, f), link')
    IN  /\ plink' = [plink EXCEPT ![p] = pl]
        /\ chan' = Put(Rest(p, l), Path(p, pl), p, frame)
        /\ dialing' = [dialing EXCEPT ![p] = @ \/ Dials(p, pl)]

\* on_session_envelope.  A message is acknowledged first, a duplicate too.
MsgArrives(p, l) ==
    /\ Arrives(p, l, {"msg"})
    /\ LET f == Head1(p, l)
       IN  /\ Opened(p, l, f)
           /\ Control(p, l, f, [kind |-> "ack", key |-> f.key, mid |-> f.mid])
           /\ sess' = [sess EXCEPT ![p] = [Now(p, f) EXCEPT !.seen = @ \cup {f.mid}]]
           /\ emitted' = IF f.mid \in Now(p, f).seen THEN emitted
                         ELSE [emitted EXCEPT ![f.mid] = @ + 1]
    /\ UNCHANGED <<pend, lan, relay, eph, verdict, sent, forgotten, faults>>

AckArrives(p, l) ==
    /\ Arrives(p, l, {"ack"})
    /\ LET f == Head1(p, l)
       IN  /\ Opened(p, l, f)
           /\ Quietly(p, l, f)
           /\ sess' = [sess EXCEPT ![p] = Without(Now(p, f), {f.mid})]
           /\ verdict' = Settle(p, {f.mid}, "delivered")
    /\ UNCHANGED <<pend, lan, relay, eph, sent, emitted, forgotten, faults>>

PingArrives(p, l) ==
    /\ Arrives(p, l, {"ping", "pong"})
    /\ LET f == Head1(p, l)
       IN  /\ Opened(p, l, f)
           /\ sess' = [sess EXCEPT ![p] = Now(p, f)]
           /\ IF f.kind = "ping" THEN Control(p, l, f, [kind |-> "pong", key |-> f.key])
              ELSE Quietly(p, l, f)
    /\ UNCHANGED <<pend, lan, relay, eph, history, faults>>

\* A payload that opens under no session.
Dropped(p, l) ==
    /\ Arrives(p, l, {"msg", "ack", "ping", "pong"})
    /\ ~Opens(p, Head1(p, l)) /\ ~Proves(p, l, Head1(p, l))
    /\ Linked(p, l)
    /\ chan' = Rest(p, l)
    /\ UNCHANGED <<sess, prov, pend, dialing, lan, relay, eph, history, faults>>

\* The relay cannot deliver p's oldest frame and says so.
RelayRefuses(p) ==
    /\ chan[Relay][Other(p)] # <<>> /\ Head(chan[Relay][Other(p)]).kind # "refused"
    /\ faults < MaxFaults /\ faults' = faults + 1
    /\ chan' = [chan EXCEPT ![Relay] = [q \in Peers |->
                    IF q = p THEN Append(@[p], [kind |-> "refused"]) ELSE Tail(@[q])]]
    /\ UNCHANGED <<core, link, eph, history>>

\* on_relay_event: the connection to the relay is lost, and frames with it, or is back.
RelayDown(p) ==
    /\ relay[p] /\ relay' = [relay EXCEPT ![p] = FALSE]
    /\ UNCHANGED <<sess, prov, pend, plink, dialing, lan, network, eph, history, faults>>

RelayUp(p) ==
    /\ ~relay[p] /\ faults < MaxFaults /\ faults' = faults + 1
    /\ relay' = [relay EXCEPT ![p] = TRUE]
    /\ UNCHANGED <<sess, prov, pend, plink, dialing, lan, network, eph, history>>

\* on_refused: what went to the relay has failed, what went over a link has not.
RefusedArrives(p) ==
    /\ Arrives(p, Relay, {"refused"})
    /\ LET relayed == {m \in Out(p) : sess[p].out[m].route = Relay}
       IN  /\ sess' = IF relayed = {} THEN sess ELSE [sess EXCEPT ![p] = Without(@, relayed)]
           /\ verdict' = Settle(p, relayed, "failed")
    /\ pend' = [pend EXCEPT ![p] = None]
    /\ chan' = Rest(p, Relay)
    /\ UNCHANGED <<prov, plink, dialing, lan, relay, link, eph, sent, emitted, forgotten, faults>>

------------------------------------------------------------------------------
User(p)   == OpenSession(p) \/ CloseSession(p) \/ \E m \in Mids : SendText(p, m)
Tick(p)   == Probe(p) \/ ProbeDead(p) \/ Expire(p) \/ \E m \in Mids : Retry(p, m) \/ GiveUp(p, m)
Dialer(p) == Resolved(p) \/ Removed(p) \/ ConnectFails(p)
             \/ \E l \in Links : Connect(p, l) \/ LinkDead(p, l)
Frame(p, l) ==
    \/ InitIgnored(p, l) \/ InitAnswered(p, l) \/ RespArrives(p, l)
    \/ MsgArrives(p, l) \/ AckArrives(p, l) \/ PingArrives(p, l) \/ Dropped(p, l)
    \/ Lose(p, l)
RelayStep(p) == RelayDown(p) \/ RelayUp(p) \/ RelayRefuses(p) \/ RefusedArrives(p)

Next == \E p \in Peers :
    User(p) \/ Tick(p) \/ Dialer(p) \/ RelayStep(p) \/ \E l \in Ways : Frame(p, l)

Spec == Init /\ [][Next]_vars

------------------------------------------------------------------------------
(* Properties.                                                              *)

\* A message reads "sending" exactly while it is outstanding in its author's live
\* session: whatever ends, replaces or re-routes a session gives or carries a verdict
\* (end_session, take_carryover).
NoStranded == \A m \in Mids : verdict[m] = "sending" <=> m \in Out(Author[m])

\* A message is shown once, however often it is resent over new links and under new
\* keys, unless the addressee ended the session it had shown it in (seen_mids).
ShownOnce == \A m \in Mids : emitted[m] > 1 => m \in forgotten

\* A message is put on the wire at most MAX_SEND_ATTEMPTS times in all, over any
\* number of sessions (take_carryover keeps the attempts).
RetryBudget == \A m \in Mids : sent[m] <= MaxSendAttempts
==============================================================================
