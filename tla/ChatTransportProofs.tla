------------------------- MODULE ChatTransportProofs -------------------------
(***************************************************************************)
(* The chat core's promises about a message, for any number of links,       *)
(* messages, handshakes and faults.  Three facts carry them: what a session  *)
(* has in flight is its author's own and has been tried as often as the      *)
(* session counts (InFlight), a "sending" message is in flight (NoStranded), *)
(* and a message that was shown is still known to the session that showed    *)
(* it (Shown).  Every step that replaces a session hands both sets on.       *)
(***************************************************************************)
EXTENDS ChatTransport, TLAPS

\* What may be on its way to q: a message of the other's, an acknowledgement of q's.
FramesTo(q) ==
         [kind : {"init", "resp"}, eph : Nat]
    \cup [kind : {"msg"}, key : Keys, mid : {m \in Mids : Author[m] = Other(q)}]
    \cup [kind : {"ack"}, key : Keys, mid : {m \in Mids : Author[m] = q}]
    \cup [kind : {"ping", "pong"}, key : Keys]
    \cup [kind : {"refused"}]

\* Channels as the frames allow them.
Carries(ch) ==
    /\ DOMAIN ch = Ways
    /\ \A l \in Ways : ch[l] = [q \in Peers |-> ch[l][q]]
    /\ \A l \in Ways, q \in Peers : ch[l][q] \in Seq(FramesTo(q))

CoreTypes ==
    /\ sess \in [Peers -> Sessions \cup {None}]
    /\ pend \in [Peers -> Nat \cup {None}] /\ plink \in [Peers -> Links \cup {None}]
    /\ eph \in Nat

HistoryTypes ==
    /\ verdict \in [Mids -> {"none", "sending", "failed", "delivered"}]
    /\ sent \in [Mids -> Nat] /\ emitted \in [Mids -> Nat]

InFlight ==
    /\ \A p \in Peers : \A m \in Out(p) : Author[m] = p /\ sess[p].out[m].attempts = sent[m]
    /\ \A m \in Mids : verdict[m] = "none" => sent[m] = 0

Shown ==
    \A m \in Mids : emitted[m] > 0 /\ m \notin forgotten =>
        /\ emitted[m] = 1
        /\ sess[Other(Author[m])] # None /\ m \in sess[Other(Author[m])].seen

Sound == HistoryTypes /\ InFlight /\ NoStranded /\ RetryBudget

IInv == CoreTypes /\ Carries(chan) /\ Sound /\ Shown
------------------------------------------------------------------------------
(* The operators the model is built from.                                   *)

\* Each peer has one other.
LEMMA OtherPeer ==
    ASSUME NEW p \in Peers
    PROVE  Other(p) \in Peers /\ Other(p) # p /\ Other(Other(p)) = p
  BY DEF Peers, Other

\* A session, by its parts.
LEMMA SessionParts ==
    ASSUME NEW s \in Sessions
    PROVE  /\ s.key \in Keys /\ s.seen \subseteq Mids /\ s.ephs \subseteq Nat
           /\ DOMAIN s.out \subseteq Mids /\ s.out \in [DOMAIN s.out -> Flights]
           /\ s = Session(s.key, s.out, s.seen, s.ephs)
<1>1. PICK ms \in SUBSET Mids : s.out \in [ms -> Flights]
  BY DEF Sessions
<1>2. DOMAIN s.out = ms
  BY <1>1
<1>. QED BY <1>1, <1>2 DEF Sessions, Session

\* Parts that make a session.
LEMMA SessionMade ==
    ASSUME NEW key \in Keys, NEW ms \in SUBSET Mids, NEW out \in [ms -> Flights],
           NEW seen \in SUBSET Mids, NEW ephs \in SUBSET Nat
    PROVE  /\ Session(key, out, seen, ephs) \in Sessions
           /\ Session(key, out, seen, ephs) # None
<1>1. out \in UNION {[k -> Flights] : k \in SUBSET Mids}
  OBVIOUS
<1>2. Session(key, out, seen, ephs) \in Sessions
  BY <1>1 DEF Session, Sessions
<1>. QED BY <1>2, NoneAssumption

\* A session's parts, and the session under another key.
LEMMA SessionFields ==
    ASSUME NEW k, NEW out, NEW seen, NEW ephs, NEW key
    PROVE  /\ Session(k, out, seen, ephs).out = out /\ Session(k, out, seen, ephs).seen = seen
           /\ Session(k, out, seen, ephs).ephs = ephs
           /\ [Session(k, out, seen, ephs) EXCEPT !.key = key] = Session(key, out, seen, ephs)
  BY DEF Session

\* A session that has seen one message more.
LEMMA SeenMore ==
    ASSUME NEW s \in Sessions, NEW mid
    PROVE  [s EXCEPT !.seen = @ \cup {mid}] = Session(s.key, s.out, s.seen \cup {mid}, s.ephs)
<1> DEFINE outs == UNION {[ms -> Flights] : ms \in SUBSET Mids}
<1>1. s \in [key : Keys, out : outs, seen : SUBSET Mids, ephs : SUBSET Nat]
  BY DEF Sessions
<1>. HIDE DEF outs
<1>. QED BY <1>1 DEF Session

\* Nothing in flight.
LEMMA EmptyOut == {} \in SUBSET Mids /\ Empty \in [{} -> Flights] /\ DOMAIN Empty = {}
  BY DEF Empty

\* Without takes the messages ms out of flight, and nothing else.
LEMMA WithoutSession ==
    ASSUME NEW s \in Sessions, NEW ms
    PROVE  /\ Without(s, ms) \in Sessions /\ Without(s, ms).seen = s.seen
           /\ DOMAIN Without(s, ms).out = DOMAIN s.out \ ms
           /\ \A m \in DOMAIN s.out \ ms : Without(s, ms).out[m] = s.out[m]
<1> DEFINE out == [m \in DOMAIN s.out \ ms |-> s.out[m]]
<1>1. Without(s, ms) = Session(s.key, out, s.seen, s.ephs)
  BY SessionParts DEF Without, Session
<1>2. DOMAIN s.out \ ms \in SUBSET Mids /\ out \in [DOMAIN s.out \ ms -> Flights]
  BY SessionParts
<1>3. Session(s.key, out, s.seen, s.ephs) \in Sessions
  BY <1>2, SessionParts, SessionMade
<1>. QED BY <1>1, <1>3 DEF Session

\* take_carryover: what the session had, if there was one.
LEMMA CarriedOn ==
    ASSUME CoreTypes, NEW p \in Peers
    PROVE  /\ Carried(p).out \in [Out(p) -> Flights] /\ Out(p) \in SUBSET Mids
           /\ Carried(p).seen \in SUBSET Mids /\ Carried(p).ephs \in SUBSET Nat
           /\ \A m \in Out(p) : Carried(p).out[m] = sess[p].out[m]
           /\ Carried(p).seen = IF sess[p] = None THEN {} ELSE sess[p].seen
           /\ Carried(p) = Session(Carried(p).key, Carried(p).out, Carried(p).seen, Carried(p).ephs)
<1>1. CASE sess[p] = None
  <2>1. Carried(p) = Session(None, Empty, {}, {})
    BY <1>1 DEF Carried
  <2>2. Carried(p).out = Empty /\ Carried(p).seen = {} /\ Carried(p).ephs = {}
        /\ Carried(p).key = None
    BY <2>1 DEF Session
  <2>3. Out(p) = {}
    BY <1>1 DEF Out
  <2>. QED BY <1>1, <2>1, <2>2, <2>3, EmptyOut
<1>2. CASE sess[p] # None
  <2>1. sess[p] \in Sessions
    BY <1>2 DEF CoreTypes
  <2>2. Carried(p) = sess[p] /\ Out(p) = DOMAIN sess[p].out
    BY <1>2 DEF Carried, Out
  <2>. QED BY <1>2, <2>1, <2>2, SessionParts
<1>. QED BY <1>1, <1>2

\* A session made of what was carried.
LEMMA CarriedSession ==
    ASSUME CoreTypes, NEW p \in Peers, NEW key \in Keys, NEW ephs \in SUBSET Nat,
           NEW seen \in SUBSET Mids
    PROVE  Session(key, Carried(p).out, seen, ephs) \in Sessions
  BY CarriedOn, SessionMade

\* The session a payload opens under.
LEMMA NowSession ==
    ASSUME CoreTypes, NEW p \in Peers, NEW f, f.key \in Keys
    PROVE  /\ Now(p, f) \in Sessions /\ DOMAIN Now(p, f).out = Out(p)
           /\ \A m \in Out(p) : Now(p, f).out[m] = sess[p].out[m]
           /\ Now(p, f).seen = IF sess[p] = None THEN {} ELSE sess[p].seen
<1>1. Now(p, f) = Session(f.key, Carried(p).out, Carried(p).seen, Carried(p).ephs)
  BY CarriedOn, SessionFields DEF Now
<1>2. /\ Carried(p).seen \subseteq Mids /\ Carried(p).ephs \subseteq Nat
      /\ Carried(p).seen = IF sess[p] = None THEN {} ELSE sess[p].seen
  BY CarriedOn
<1>3. /\ Now(p, f) \in Sessions /\ DOMAIN Now(p, f).out = Out(p) /\ Now(p, f).seen = Carried(p).seen
      /\ \A m \in Out(p) : Now(p, f).out[m] = sess[p].out[m]
  <2>1. Now(p, f).out = Carried(p).out /\ Now(p, f).seen = Carried(p).seen
    BY <1>1, SessionFields
  <2>2. Now(p, f) \in Sessions
    BY <1>1, <1>2, CarriedSession
  <2>. QED BY <2>1, <2>2, CarriedOn
<1>. QED BY <1>2, <1>3

\* A frame put on a way is on that way or nowhere.
LEMMA PutCarries ==
    ASSUME NEW ch, Carries(ch), NEW p \in Peers, NEW l \in Ways \cup {None},
           NEW frame \in FramesTo(Other(p))
    PROVE  Carries(Put(ch, l, p, frame))
<1>1. CASE Put(ch, l, p, frame) = ch
  BY <1>1
<1>2. CASE Put(ch, l, p, frame) = [ch EXCEPT ![l][Other(p)] = Append(@, frame)] /\ l \in Ways
  <2> DEFINE q == Other(p)
             new == [ch EXCEPT ![l][q] = Append(@, frame)]
  <2>1. q \in Peers /\ Append(ch[l][q], frame) \in Seq(FramesTo(q))
    BY <1>2, OtherPeer DEF Carries
  <2>. HIDE DEF q
  <2>2. Carries(new)
    BY <1>2, <2>1 DEF Carries
  <2>. QED BY <1>2, <2>2 DEF q
<1>. QED BY <1>1, <1>2 DEF Put, Ways

\* What arrives is what may, and the rest stays.
LEMMA RestCarries ==
    ASSUME Carries(chan), NEW p \in Peers, NEW l \in Ways, chan[l][p] # <<>>
    PROVE  Head1(p, l) \in FramesTo(p) /\ Carries(Rest(p, l))
<1>1. Head(chan[l][p]) \in FramesTo(p) /\ Tail(chan[l][p]) \in Seq(FramesTo(p))
  BY DEF Carries
<1>2. Carries([chan EXCEPT ![l][p] = Tail(@)])
  BY <1>1 DEF Carries
<1>. QED BY <1>1, <1>2 DEF Head1, Rest

\* Frames by their kind.
LEMMA FrameKinds ==
    ASSUME NEW p \in Peers, NEW f \in FramesTo(p)
    PROVE  /\ f.kind \in {"init", "resp"} => f.eph \in Nat
           /\ f.kind \in {"msg", "ack", "ping", "pong"} => f.key \in Keys
           /\ f.kind = "msg" => f.mid \in Mids /\ Author[f.mid] = Other(p)
           /\ f.kind = "ack" => f.mid \in Mids /\ Author[f.mid] = p
  BY DEF FramesTo

\* The frames a peer sends.
LEMMA FramesSent ==
    ASSUME NEW p \in Peers
    PROVE  /\ \A e \in Nat : [kind |-> "init", eph |-> e] \in FramesTo(p)
           /\ \A e \in Nat : [kind |-> "resp", eph |-> e] \in FramesTo(p)
           /\ \A k \in Keys : [kind |-> "ping", key |-> k] \in FramesTo(p)
           /\ \A k \in Keys : [kind |-> "pong", key |-> k] \in FramesTo(p)
           /\ \A k \in Keys, m \in Mids : Author[m] = Other(p) => [kind |-> "msg", key |-> k, mid |-> m] \in FramesTo(p)
           /\ \A k \in Keys, m \in Mids : Author[m] = p => [kind |-> "ack", key |-> k, mid |-> m] \in FramesTo(p)
           /\ [kind |-> "refused"] \in FramesTo(p)
  BY DEF FramesTo

\* The routes.
LEMMA Routes ==
    ASSUME CoreTypes, NEW p \in Peers
    PROVE  /\ \A pl \in Links \cup {None} : Path(p, pl) \in Ways \cup {None}
           /\ \A pl \in Links \cup {None} : \A lk : Live(p, pl, lk) \in Links \cup {None}
           /\ \A l \in Ways : Kept(p, l) \in Links \cup {None}
           /\ \A l \in Links : Keeps(p, l) \in Links
           /\ \A l \in Ways : \A f : KeptBy(p, l, f) \in Links \cup {None}
<1>1. \A l \in Links : Keeps(p, l) \in Links
  BY DEF CoreTypes, Keeps
<1>2. \A pl \in Links \cup {None} : Path(p, pl) \in Ways \cup {None}
  BY DEF Path, Ways
<1>3. \A l \in Ways : Kept(p, l) \in Links \cup {None}
  BY <1>1 DEF CoreTypes, Kept, News, Ways
<1>4. \A l \in Ways : \A f : KeptBy(p, l, f) \in Links \cup {None}
  BY <1>3 DEF KeptBy, Proves, Ways
<1>5. \A pl \in Links \cup {None} : \A lk : Live(p, pl, lk) \in Links \cup {None}
  BY DEF Live
<1>. QED BY <1>1, <1>2, <1>3, <1>4, <1>5

------------------------------------------------------------------------------
(* What a step of p does to what is in flight and what was shown.            *)

\* The messages p has in flight once its session is s.
LEMMA OutNext ==
    ASSUME CoreTypes, NEW p \in Peers, NEW s \in Sessions, sess' = [sess EXCEPT ![p] = s]
    PROVE  /\ sess'[p] = s /\ Out(p)' = DOMAIN s.out
           /\ \A q \in Peers \ {p} : sess'[q] = sess[q] /\ Out(q)' = Out(q)
           /\ sess' \in [Peers -> Sessions \cup {None}]
<1>1. s # None
  BY NoneAssumption
<1>2. sess'[p] = s /\ \A q \in Peers \ {p} : sess'[q] = sess[q]
  BY DEF CoreTypes
<1>3. sess' \in [Peers -> Sessions \cup {None}]
  BY DEF CoreTypes
<1>. QED BY <1>1, <1>2, <1>3 DEF Out

\* Messages that leave flight have their verdict; the others go on as they were.
LEMMA FlightGoesOn ==
    ASSUME CoreTypes, Sound, NEW p \in Peers, NEW s \in Sessions,
           sess' = [sess EXCEPT ![p] = s], NEW ms, DOMAIN s.out = Out(p) \ ms,
           \A m \in DOMAIN s.out : s.out[m] = sess[p].out[m],
           NEW state \in {"failed", "delivered"}, verdict' = Settle(p, ms, state),
           UNCHANGED sent, emitted' \in [Mids -> Nat]
    PROVE  Sound'
<1> USE DEF Sound
<1>1. /\ sess'[p] = s /\ Out(p)' = Out(p) \ ms
      /\ \A q \in Peers \ {p} : sess'[q] = sess[q] /\ Out(q)' = Out(q)
  BY OutNext
<1>2. /\ \A m \in ms \cap Out(p) : m \in Mids => verdict'[m] = state
      /\ \A m \in Mids : m \notin ms \cap Out(p) => verdict'[m] = verdict[m]
  BY DEF Settle
<1>3. HistoryTypes'
  BY DEF HistoryTypes, Settle
<1>4. InFlight'
  <2>1. ASSUME NEW q \in Peers, NEW m \in Out(q)'
        PROVE  Author[m] = q /\ sess'[q].out[m].attempts = sent'[m]
    BY <1>1 DEF InFlight
  <2>2. ASSUME NEW m \in Mids, verdict'[m] = "none" PROVE sent'[m] = 0
    BY <1>2, <2>2 DEF InFlight
  <2>. QED BY <2>1, <2>2 DEF InFlight
<1>5. NoStranded'
  <2> SUFFICES ASSUME NEW m \in Mids PROVE verdict'[m] = "sending" <=> m \in Out(Author[m])'
    BY DEF NoStranded
  <2>1. verdict[m] = "sending" <=> m \in Out(Author[m])
    BY DEF NoStranded
  <2>2. m \in Out(p) => Author[m] = p
    BY DEF InFlight
  <2>3. Author[m] \in Peers
    BY AuthorAssumption
  <2>. QED BY <1>1, <1>2, <2>1, <2>2, <2>3
<1>6. RetryBudget'
  BY DEF RetryBudget
<1>. QED BY <1>3, <1>4, <1>5, <1>6

\* A step without a verdict.
LEMMA FlightStays ==
    ASSUME CoreTypes, Sound, NEW p \in Peers, NEW s \in Sessions,
           sess' = [sess EXCEPT ![p] = s], DOMAIN s.out = Out(p),
           \A m \in Out(p) : s.out[m] = sess[p].out[m],
           UNCHANGED <<verdict, sent>>, emitted' \in [Mids -> Nat]
    PROVE  Sound'
<1>1. verdict' = Settle(p, {}, "failed")
  BY DEF Settle, Sound, HistoryTypes
<1>2. Out(p) = Out(p) \ {}
  OBVIOUS
<1>. QED BY <1>1, <1>2, FlightGoesOn

\* What was shown is still known while the session that showed it, or one that took
\* over from it, is there.
LEMMA ShownGoesOn ==
    ASSUME CoreTypes, Shown, NEW p \in Peers, NEW s \in Sessions,
           sess' = [sess EXCEPT ![p] = s], sess[p] # None => sess[p].seen \subseteq s.seen,
           UNCHANGED <<emitted, forgotten>>
    PROVE  Shown'
<1>1. /\ sess'[p] = s /\ \A q \in Peers \ {p} : sess'[q] = sess[q]
  BY OutNext
<1>2. s # None
  BY NoneAssumption
<1> SUFFICES ASSUME NEW m \in Mids, emitted[m] > 0, m \notin forgotten
             PROVE  /\ emitted[m] = 1
                    /\ sess'[Other(Author[m])] # None /\ m \in sess'[Other(Author[m])].seen
  BY DEF Shown
<1>3. /\ emitted[m] = 1 /\ sess[Other(Author[m])] # None /\ m \in sess[Other(Author[m])].seen
  BY DEF Shown
<1>4. Other(Author[m]) \in Peers
  BY AuthorAssumption, OtherPeer
<1>. QED BY <1>1, <1>2, <1>3, <1>4

\* end_session gives a verdict for everything in flight, and what it showed is
\* forgotten.
LEMMA EndInv ==
    ASSUME CoreTypes, Sound, Shown, NEW p \in Peers, EndSession(p), UNCHANGED <<sent, emitted>>
    PROVE  sess' \in [Peers -> Sessions \cup {None}] /\ Sound' /\ Shown'
<1> USE DEF EndSession
<1>1. /\ sess'[p] = None /\ Out(p)' = {}
      /\ \A q \in Peers \ {p} : sess'[q] = sess[q] /\ Out(q)' = Out(q)
      /\ sess' \in [Peers -> Sessions \cup {None}]
  BY DEF CoreTypes, Out
<1>2. /\ \A m \in Out(p) : m \in Mids => verdict'[m] = "failed"
      /\ \A m \in Mids : m \notin Out(p) => verdict'[m] = verdict[m]
  BY DEF Settle
<1>3. HistoryTypes'
  BY DEF HistoryTypes, Settle, Sound
<1>4. InFlight'
  <2>1. ASSUME NEW q \in Peers, NEW m \in Out(q)'
        PROVE  Author[m] = q /\ sess'[q].out[m].attempts = sent'[m]
    BY <1>1 DEF InFlight, Sound
  <2>2. ASSUME NEW m \in Mids, verdict'[m] = "none" PROVE sent'[m] = 0
    BY <1>2, <2>2 DEF InFlight, Sound
  <2>. QED BY <2>1, <2>2 DEF InFlight
<1>5. NoStranded'
  <2> SUFFICES ASSUME NEW m \in Mids PROVE verdict'[m] = "sending" <=> m \in Out(Author[m])'
    BY DEF NoStranded
  <2>1. verdict[m] = "sending" <=> m \in Out(Author[m])
    BY DEF NoStranded, Sound
  <2>2. m \in Out(p) => Author[m] = p
    BY DEF InFlight, Sound
  <2>3. Author[m] \in Peers
    BY AuthorAssumption
  <2>. QED BY <1>1, <1>2, <2>1, <2>2, <2>3
<1>6. RetryBudget'
  BY DEF RetryBudget, Sound
<1>7. Shown'
  <2> SUFFICES ASSUME NEW m \in Mids, emitted[m] > 0, m \notin forgotten'
               PROVE  /\ emitted[m] = 1
                      /\ sess'[Other(Author[m])] # None /\ m \in sess'[Other(Author[m])].seen
    BY DEF Shown
  <2>1. m \notin forgotten /\ (sess[p] # None => m \notin sess[p].seen)
    OBVIOUS
  <2>2. /\ emitted[m] = 1 /\ sess[Other(Author[m])] # None /\ m \in sess[Other(Author[m])].seen
    BY <2>1 DEF Shown
  <2>3. Other(Author[m]) \in Peers
    BY AuthorAssumption, OtherPeer
  <2>. QED BY <1>1, <2>1, <2>2, <2>3
<1>. QED BY <1>1, <1>3, <1>4, <1>5, <1>6, <1>7 DEF Sound

\* An attempt leaves the message in flight and counted, or failed.
LEMMA AttemptInv ==
    ASSUME CoreTypes, Sound, Shown, Carries(chan), NEW p \in Peers, NEW m \in Mids, Author[m] = p,
           NEW s \in Sessions, sess[p] # None, s.seen = sess[p].seen,
           DOMAIN s.out = Out(p) \cup {m}, s.out[m].attempts = sent[m], sent[m] < MaxSendAttempts,
           \A k \in Out(p) \ {m} : s.out[k] = sess[p].out[k],
           AttemptSend(p, s, m), UNCHANGED <<emitted, forgotten>>
    PROVE  /\ sess' \in [Peers -> Sessions \cup {None}] /\ Carries(chan)' /\ Sound' /\ Shown'
           /\ plink' \in [Peers -> Links \cup {None}]
<1> DEFINE pl  == Live(p, plink[p], link)
           way == Path(p, pl)
<1>0. plink[p] \in Links \cup {None}
  BY DEF CoreTypes
<1>1. pl \in Links \cup {None} /\ way \in Ways \cup {None}
  <2>1. pl \in Links \cup {None}
    BY <1>0, Routes
  <2>. HIDE DEF pl
  <2>. QED BY <2>1, Routes
<1>11. plink' \in [Peers -> Links \cup {None}]
  <2>1. plink' = [plink EXCEPT ![p] = pl]
    BY DEF AttemptSend
  <2>. HIDE DEF pl
  <2>. QED BY <1>1, <2>1 DEF CoreTypes
<1>2. Carries(chan)'
  <2>1. s.key \in Keys /\ Author[m] = Other(Other(p)) /\ Other(p) \in Peers
    BY SessionParts, OtherPeer
  <2>2. [kind |-> "msg", key |-> s.key, mid |-> m] \in FramesTo(Other(p))
    BY <2>1, FramesSent
  <2>3. Carries(Put(chan, way, p, [kind |-> "msg", key |-> s.key, mid |-> m]))
    BY <1>1, <2>2, PutCarries
  <2>. QED BY <2>3 DEF AttemptSend, Carries
<1>3. PICK n \in Sessions :
        /\ sess' = [sess EXCEPT ![p] = n] /\ n.seen = s.seen
        /\ \A k \in Out(p) \ {m} : k \in DOMAIN n.out /\ n.out[k] = s.out[k]
        /\ \/ /\ DOMAIN n.out = Out(p) \cup {m} /\ n.out[m].attempts = sent[m] + 1
              /\ verdict' = [verdict EXCEPT ![m] = "sending"]
           \/ /\ DOMAIN n.out = Out(p) \ {m} /\ verdict' = [verdict EXCEPT ![m] = "failed"]
  <2>1. CASE way # None
    <3> DEFINE flight == [attempts |-> s.out[m].attempts + 1, route |-> way]
               out == [s.out EXCEPT ![m] = flight]
               n == Session(s.key, out, s.seen, s.ephs)
    <3>1. s.out \in [Out(p) \cup {m} -> Flights] /\ Out(p) \cup {m} \in SUBSET Mids
      BY SessionParts
    <3>2. flight \in Flights
      BY <1>1, <3>1 DEF Flights
    <3>3. out \in [Out(p) \cup {m} -> Flights]
      BY <3>1, <3>2
    <3>4. [s EXCEPT !.out[m] = [attempts |-> @.attempts + 1, route |-> way]] = n
      BY SessionParts DEF Session
    <3>5. n \in Sessions
      BY <3>1, <3>3, SessionParts, SessionMade
    <3>6. n.out = out /\ n.seen = s.seen
      BY SessionFields
    <3>7. out[m].attempts = sent[m] + 1 /\ DOMAIN out = Out(p) \cup {m}
          /\ \A k \in Out(p) \ {m} : out[k] = s.out[k]
      BY <3>1
    <3>8. sess' = [sess EXCEPT ![p] = n] /\ verdict' = [verdict EXCEPT ![m] = "sending"]
      BY <2>1, <3>4 DEF AttemptSend
    <3>. HIDE DEF n, out
    <3>. QED BY <3>5, <3>6, <3>7, <3>8
  <2>2. CASE way = None
    <3> DEFINE n == Without(s, {m})
    <3>1. /\ n \in Sessions /\ n.seen = s.seen /\ DOMAIN n.out = DOMAIN s.out \ {m}
          /\ \A k \in DOMAIN s.out \ {m} : n.out[k] = s.out[k]
      BY WithoutSession
    <3>2. sess' = [sess EXCEPT ![p] = n] /\ verdict' = [verdict EXCEPT ![m] = "failed"]
      BY <2>2 DEF AttemptSend
    <3>3. DOMAIN s.out \ {m} = Out(p) \ {m}
      OBVIOUS
    <3>. HIDE DEF n
    <3>. QED BY <3>1, <3>2, <3>3
  <2>. QED BY <2>1, <2>2
<1>. HIDE DEF way, pl
<1>4. /\ sess'[p] = n /\ Out(p)' = DOMAIN n.out
      /\ \A q \in Peers \ {p} : sess'[q] = sess[q] /\ Out(q)' = Out(q)
      /\ sess' \in [Peers -> Sessions \cup {None}]
  BY <1>3, OutNext
<1>5. Shown'
  BY <1>3, ShownGoesOn
<1>6. /\ sent' \in [Mids -> Nat] /\ sent'[m] = sent[m] + 1 /\ \A k \in Mids \ {m} : sent'[k] = sent[k]
      /\ verdict'[m] \in {"sending", "failed"} /\ \A k \in Mids \ {m} : verdict'[k] = verdict[k]
      /\ verdict' \in [Mids -> {"none", "sending", "failed", "delivered"}]
  BY <1>3 DEF AttemptSend, Sound, HistoryTypes
<1>7. HistoryTypes'
  BY <1>6 DEF Sound, HistoryTypes
<1>8. RetryBudget'
  BY <1>6, BoundsAssumption DEF RetryBudget, Sound, HistoryTypes
<1>9. InFlight'
  <2>1. ASSUME NEW q \in Peers, NEW k \in Out(q)'
        PROVE  Author[k] = q /\ sess'[q].out[k].attempts = sent'[k]
    <3>0. \A r \in Peers : \A x \in Out(r) : x \in Mids
      BY SessionParts DEF CoreTypes, Out
    <3>1. CASE q # p
      BY <1>4, <1>6, <3>0, <3>1 DEF InFlight, Sound
    <3>2. CASE q = p /\ k # m
      BY <1>3, <1>4, <1>6, <3>0, <3>2 DEF InFlight, Sound
    <3>3. CASE q = p /\ k = m
      BY <1>3, <1>4, <1>6, <3>3
    <3>. QED BY <3>1, <3>2, <3>3
  <2>2. ASSUME NEW k \in Mids, verdict'[k] = "none" PROVE sent'[k] = 0
    BY <1>6, <2>2 DEF InFlight, Sound
  <2>. QED BY <2>1, <2>2 DEF InFlight
<1>10. NoStranded'
  <2> SUFFICES ASSUME NEW k \in Mids PROVE verdict'[k] = "sending" <=> k \in Out(Author[k])'
    BY DEF NoStranded
  <2>1. verdict[k] = "sending" <=> k \in Out(Author[k])
    BY DEF NoStranded, Sound
  <2>2. Author[k] \in Peers
    BY AuthorAssumption
  <2>3. CASE k = m
    BY <1>3, <1>4, <2>3 DEF Sound, HistoryTypes
  <2>4. CASE k # m
    BY <1>3, <1>4, <1>6, <2>1, <2>2, <2>4
  <2>. QED BY <2>3, <2>4
<1>. QED BY <1>2, <1>4, <1>5, <1>7, <1>8, <1>9, <1>10, <1>11 DEF Sound

\* A step that touches no session and gives no verdict.
LEMMA Quiet ==
    ASSUME CoreTypes, Sound, Shown, UNCHANGED <<sess, history>>
    PROVE  sess' \in [Peers -> Sessions \cup {None}] /\ Sound' /\ Shown'
<1>1. \A p : Out(p)' = Out(p)
  BY DEF history, Out
<1>2. HistoryTypes' /\ RetryBudget'
  BY DEF history, Sound, HistoryTypes, RetryBudget
<1>3. InFlight' /\ NoStranded'
  BY <1>1 DEF history, Sound, InFlight, NoStranded
<1>. QED BY <1>2, <1>3 DEF history, CoreTypes, Sound, Shown

\* Messages ms of p leave flight with the verdict "failed".
LEMMA FailInv ==
    ASSUME CoreTypes, Sound, Shown, NEW p \in Peers, NEW ms, ms \subseteq Out(p),
           sess' = (IF ms = {} THEN sess ELSE [sess EXCEPT ![p] = Without(@, ms)]),
           verdict' = Settle(p, ms, "failed"), UNCHANGED <<sent, emitted, forgotten>>
    PROVE  sess' \in [Peers -> Sessions \cup {None}] /\ Sound' /\ Shown'
<1>1. CASE ms = {}
  <2>1. verdict' = verdict
    BY <1>1 DEF Settle, Sound, HistoryTypes
  <2>. QED BY <1>1, <2>1, Quiet DEF history
<1>2. CASE ms # {}
  <2> DEFINE s == Without(sess[p], ms)
  <2>1. sess[p] \in Sessions /\ Out(p) = DOMAIN sess[p].out
    BY <1>2 DEF CoreTypes, Out
  <2>2. /\ s \in Sessions /\ s.seen = sess[p].seen /\ DOMAIN s.out = Out(p) \ ms
        /\ \A m \in DOMAIN s.out : s.out[m] = sess[p].out[m]
    BY <2>1, WithoutSession
  <2>3. sess' = [sess EXCEPT ![p] = s]
    BY <1>2
  <2>4. emitted' \in [Mids -> Nat]
    BY DEF Sound, HistoryTypes
  <2>. HIDE DEF s
  <2>5. Sound'
    BY <2>2, <2>3, <2>4, FlightGoesOn
  <2>6. Shown'
    BY <2>2, <2>3, ShownGoesOn
  <2>. QED BY <2>2, <2>3, <2>5, <2>6, OutNext
<1>. QED BY <1>1, <1>2

\* A handshake frame associates its link.
LEMMA LinkedTypes ==
    ASSUME CoreTypes, NEW p \in Peers, NEW l \in Ways, Linked(p, l)
    PROVE  plink' \in [Peers -> Links \cup {None}]
  BY Routes DEF Linked, CoreTypes

\* The link p keeps once it has routed a frame.
LEMMA RoutedTypes ==
    ASSUME CoreTypes, NEW p \in Peers, NEW pl \in Links \cup {None}, NEW lk,
           plink' = [plink EXCEPT ![p] = Live(p, pl, lk)]
    PROVE  plink' \in [Peers -> Links \cup {None}]
<1>1. Live(p, pl, lk) \in Links \cup {None}
  BY Routes
<1>. QED BY <1>1 DEF CoreTypes

\* A frame that is put on the route there is.
LEMMA RoutedCarries ==
    ASSUME CoreTypes, NEW ch, Carries(ch), NEW p \in Peers, NEW pl \in Links \cup {None}, NEW lk,
           NEW frame \in FramesTo(Other(p))
    PROVE  Carries(Put(ch, Path(p, Live(p, pl, lk)), p, frame))
<1>1. Live(p, pl, lk) \in Links \cup {None}
  BY Routes
<1>2. Path(p, Live(p, pl, lk)) \in Ways \cup {None}
  BY <1>1, Routes
<1>. QED BY <1>2, PutCarries

\* An acknowledgement or an answer to a ping goes back on a route or is not sent.
LEMMA ControlCarries ==
    ASSUME CoreTypes, Carries(chan), NEW p \in Peers, NEW l \in Ways, chan[l][p] # <<>>, NEW f,
           NEW frame \in FramesTo(Other(p)), Control(p, l, f, frame)
    PROVE  Carries(chan)' /\ plink' \in [Peers -> Links \cup {None}]
<1> DEFINE pl == KeptBy(p, l, f)
<1>1. pl \in Links \cup {None} /\ Carries(Rest(p, l))
  BY Routes, RestCarries
<1>2. /\ plink' = [plink EXCEPT ![p] = Live(p, pl, link')]
      /\ chan' = Put(Rest(p, l), Path(p, Live(p, pl, link')), p, frame)
  BY DEF Control
<1>. HIDE DEF pl
<1>3. Carries(Put(Rest(p, l), Path(p, Live(p, pl, link')), p, frame))
  BY <1>1, RoutedCarries
<1>4. plink' \in [Peers -> Links \cup {None}]
  BY <1>1, <1>2, RoutedTypes
<1>. QED BY <1>2, <1>3, <1>4 DEF Carries

\* A payload that calls for no answer.
LEMMA QuietlyCarries ==
    ASSUME CoreTypes, Carries(chan), NEW p \in Peers, NEW l \in Ways, chan[l][p] # <<>>, NEW f,
           Quietly(p, l, f)
    PROVE  Carries(chan)' /\ plink' \in [Peers -> Links \cup {None}]
<1>1. KeptBy(p, l, f) \in Links \cup {None} /\ Carries(Rest(p, l))
  BY Routes, RestCarries
<1>2. plink' = [plink EXCEPT ![p] = KeptBy(p, l, f)] /\ chan' = Rest(p, l)
  BY DEF Quietly
<1>3. plink' \in [Peers -> Links \cup {None}]
  BY <1>1, <1>2 DEF CoreTypes
<1>. QED BY <1>1, <1>2, <1>3 DEF Carries

------------------------------------------------------------------------------
(* The invariant, action by action.                                         *)

\* The application: a session opened or closed, a message written.
LEMMA UserInv ==
    ASSUME IInv, NEW p \in Peers, User(p)
    PROVE  IInv'
<1> USE DEF IInv
<1>1. CASE OpenSession(p)
  <2>1. sess' \in [Peers -> Sessions \cup {None}] /\ Sound' /\ Shown'
    BY <1>1, Quiet DEF OpenSession
  <2>2. eph' \in Nat /\ pend' \in [Peers -> Nat \cup {None}]
    BY <1>1 DEF OpenSession, CoreTypes
  <2>3. plink[p] \in Links \cup {None}
    BY DEF CoreTypes
  <2>4. [kind |-> "init", eph |-> eph + 1] \in FramesTo(Other(p))
    BY OtherPeer, FramesSent DEF CoreTypes
  <2>5. Carries(Put(chan, Path(p, Live(p, plink[p], link)), p, [kind |-> "init", eph |-> eph + 1]))
    BY <2>3, <2>4, RoutedCarries
  <2>6. Carries(chan)'
    BY <1>1, <2>5 DEF OpenSession, Carries
  <2>7. plink' \in [Peers -> Links \cup {None}]
    BY <1>1, <2>3, RoutedTypes DEF OpenSession
  <2>. QED BY <2>1, <2>2, <2>6, <2>7 DEF CoreTypes
<1>2. CASE CloseSession(p)
  <2>1. sess' \in [Peers -> Sessions \cup {None}] /\ Sound' /\ Shown'
    BY <1>2, EndInv DEF CloseSession
  <2>2. eph' \in Nat /\ pend' \in [Peers -> Nat \cup {None}] /\ plink' \in [Peers -> Links \cup {None}]
    BY <1>2 DEF CloseSession, CoreTypes
  <2>3. Carries(chan)'
    BY <1>2 DEF CloseSession, network, Carries
  <2>. QED BY <2>1, <2>2, <2>3 DEF CoreTypes
<1>3. ASSUME NEW m \in Mids, SendText(p, m) PROVE IInv'
  <2> DEFINE f == [attempts |-> 0, route |-> None]
             out == [k \in Out(p) \cup {m} |-> IF k = m THEN f ELSE sess[p].out[k]]
             s == Session(sess[p].key, out, sess[p].seen, sess[p].ephs)
  <2>1. sess[p] \in Sessions /\ sess[p] # None /\ Out(p) = DOMAIN sess[p].out
    BY <1>3 DEF SendText, CoreTypes, Out
  <2>2. f \in Flights
    BY DEF Flights
  <2>3. out \in [Out(p) \cup {m} -> Flights] /\ Out(p) \cup {m} \in SUBSET Mids
    BY <2>1, <2>2, SessionParts
  <2>4. s \in Sessions
    BY <2>1, <2>3, SessionParts, SessionMade
  <2>5. [sess[p] EXCEPT !.out = [k \in Out(p) \cup {m} |-> IF k = m THEN f ELSE @[k]]] = s
    BY <2>1, SessionParts DEF Session
  <2>6. s.out = out /\ s.seen = sess[p].seen
    BY SessionFields
  <2>7. out[m].attempts = 0 /\ \A k \in Out(p) \ {m} : out[k] = sess[p].out[k]
    OBVIOUS
  <2>8. sent[m] = 0 /\ 0 < MaxSendAttempts /\ Author[m] = p
    BY <1>3, BoundsAssumption DEF SendText, Sound, InFlight
  <2>9. AttemptSend(p, s, m) /\ UNCHANGED <<emitted, forgotten>>
    BY <1>3, <2>5 DEF SendText
  <2>10. DOMAIN s.out = Out(p) \cup {m}
    BY <2>6
  <2>11. s.out[m].attempts = sent[m] /\ sent[m] < MaxSendAttempts
    BY <2>6, <2>7, <2>8
  <2>. HIDE DEF s, out, f
  <2>12. /\ sess' \in [Peers -> Sessions \cup {None}] /\ Carries(chan)' /\ Sound' /\ Shown'
         /\ plink' \in [Peers -> Links \cup {None}]
    BY <2>1, <2>4, <2>6, <2>7, <2>8, <2>9, <2>10, <2>11, AttemptInv
  <2>13. eph' \in Nat /\ pend' \in [Peers -> Nat \cup {None}]
    BY <1>3 DEF SendText, CoreTypes
  <2>. QED BY <2>12, <2>13 DEF CoreTypes
<1>. QED BY <1>1, <1>2, <1>3 DEF User

\* The tick: probes, expiry, another attempt or none.
LEMMA TickInv ==
    ASSUME IInv, NEW p \in Peers, Tick(p)
    PROVE  IInv'
<1> USE DEF IInv
<1>1. CASE Probe(p)
  <2>1. sess' \in [Peers -> Sessions \cup {None}] /\ Sound' /\ Shown'
    BY <1>1, Quiet DEF Probe
  <2>2. UNCHANGED <<eph, pend>>
    BY <1>1 DEF Probe
  <2>3. plink[p] \in Links \cup {None}
    BY DEF CoreTypes
  <2>4. sess[p].key \in Keys
    BY <1>1, SessionParts DEF Probe, CoreTypes
  <2>5. [kind |-> "ping", key |-> sess[p].key] \in FramesTo(Other(p))
    BY <2>4, OtherPeer, FramesSent
  <2>6. Carries(Put(chan, Path(p, Live(p, plink[p], link)), p, [kind |-> "ping", key |-> sess[p].key]))
    BY <2>3, <2>5, RoutedCarries
  <2>7. Carries(chan)'
    BY <1>1, <2>6 DEF Probe, Carries
  <2>8. plink' \in [Peers -> Links \cup {None}]
    BY <1>1, <2>3, RoutedTypes DEF Probe
  <2>. QED BY <2>1, <2>2, <2>7, <2>8 DEF CoreTypes
<1>2. CASE ProbeDead(p)
  <2>1. sess' \in [Peers -> Sessions \cup {None}] /\ Sound' /\ Shown'
    BY <1>2, EndInv DEF ProbeDead
  <2>2. UNCHANGED <<eph, pend, plink, chan>>
    BY <1>2 DEF ProbeDead, network
  <2>. QED BY <2>1, <2>2 DEF CoreTypes, Carries
<1>3. CASE Expire(p)
  <2>1. sess' \in [Peers -> Sessions \cup {None}] /\ Sound' /\ Shown'
    BY <1>3, Quiet DEF Expire
  <2>2. UNCHANGED <<eph, pend, plink, chan>>
    BY <1>3 DEF Expire, network
  <2>. QED BY <2>1, <2>2 DEF CoreTypes, Carries
<1>4. ASSUME NEW m \in Mids, Retry(p, m) PROVE IInv'
  <2>1. sess[p] \in Sessions /\ sess[p] # None /\ Out(p) = DOMAIN sess[p].out /\ m \in Out(p)
    BY <1>4 DEF Retry, CoreTypes, Out
  <2>2. Author[m] = p /\ sess[p].out[m].attempts = sent[m]
    BY <2>1 DEF Sound, InFlight
  <2>3. sent[m] < MaxSendAttempts /\ AttemptSend(p, sess[p], m) /\ UNCHANGED <<emitted, forgotten>>
    BY <1>4, <2>2 DEF Retry
  <2>4. DOMAIN sess[p].out = Out(p) \cup {m}
    BY <2>1
  <2> DEFINE s == sess[p]
  <2>5. /\ s \in Sessions /\ s.seen = sess[p].seen /\ DOMAIN s.out = Out(p) \cup {m}
        /\ s.out[m].attempts = sent[m] /\ AttemptSend(p, s, m)
        /\ \A k \in Out(p) \ {m} : s.out[k] = sess[p].out[k]
    BY <2>1, <2>2, <2>3, <2>4
  <2>. HIDE DEF s
  <2>6. /\ sess' \in [Peers -> Sessions \cup {None}] /\ Carries(chan)' /\ Sound' /\ Shown'
        /\ plink' \in [Peers -> Links \cup {None}]
    BY <2>1, <2>2, <2>3, <2>5, AttemptInv
  <2>7. UNCHANGED <<eph, pend>>
    BY <1>4 DEF Retry
  <2>. QED BY <2>6, <2>7 DEF CoreTypes
<1>5. ASSUME NEW m \in Mids, GiveUp(p, m) PROVE IInv'
  <2>1. {m} \subseteq Out(p) /\ {m} # {}
    BY <1>5 DEF GiveUp
  <2>2. sess' = [sess EXCEPT ![p] = Without(@, {m})] /\ verdict' = Settle(p, {m}, "failed")
        /\ UNCHANGED <<sent, emitted, forgotten>>
    BY <1>5 DEF GiveUp
  <2>3. sess' \in [Peers -> Sessions \cup {None}] /\ Sound' /\ Shown'
    BY <2>1, <2>2, FailInv
  <2>4. UNCHANGED <<eph, pend, plink, chan>>
    BY <1>5 DEF GiveUp, network
  <2>. QED BY <2>3, <2>4 DEF CoreTypes, Carries
<1>. QED BY <1>1, <1>2, <1>3, <1>4, <1>5 DEF Tick

\* Addresses, dials and dead links.
LEMMA DialerInv ==
    ASSUME IInv, NEW p \in Peers, Dialer(p)
    PROVE  IInv'
<1> USE DEF IInv
<1>1. CASE Resolved(p) \/ Removed(p) \/ ConnectFails(p)
  <2>1. sess' \in [Peers -> Sessions \cup {None}] /\ Sound' /\ Shown'
    BY <1>1, Quiet DEF Resolved, Removed, ConnectFails
  <2>2. /\ UNCHANGED <<eph, plink, chan>> /\ pend' \in [Peers -> Nat \cup {None}]
    BY <1>1 DEF Resolved, Removed, ConnectFails, network, CoreTypes
  <2>. QED BY <2>1, <2>2 DEF CoreTypes, Carries
<1>2. ASSUME NEW l \in Links, Connect(p, l) PROVE IInv'
  <2> DEFINE fresh == pend[p] = None /\ sess[p] # None
             mine  == IF fresh THEN eph + 1 ELSE pend[p]
             keeps == Live(p, Keeps(p, l), link')
             way   == Path(p, keeps)
             frame == [kind |-> "init", eph |-> mine]
  <2>1. sess' \in [Peers -> Sessions \cup {None}] /\ Sound' /\ Shown'
    BY <1>2, Quiet DEF Connect
  <2>2. CASE mine = None
    <3>1. UNCHANGED <<eph, pend, plink, chan>>
      BY <1>2, <2>2 DEF Connect
    <3>. QED BY <2>1, <3>1 DEF CoreTypes, Carries
  <2>3. CASE mine # None
    <3>0. keeps \in Links \cup {None}
      BY Routes
    <3>1. mine \in Nat /\ l \in Ways /\ way \in Ways \cup {None}
      <4>1. mine \in Nat /\ l \in Ways
        BY <2>3 DEF CoreTypes, Ways
      <4>. HIDE DEF keeps
      <4>. QED BY <3>0, <4>1, Routes
    <3>2. frame \in FramesTo(Other(p)) /\ Other(p) \in Peers
      BY <3>1, OtherPeer, FramesSent
    <3>3. /\ plink' = [plink EXCEPT ![p] = keeps]
          /\ pend' = [pend EXCEPT ![p] = IF way # None \/ lan[p] THEN mine ELSE None]
          /\ eph' \in {eph, eph + 1}
          /\ chan' = IF keeps = l THEN [chan EXCEPT ![l][Other(p)] = Append(@, frame)]
                     ELSE Put(chan, way, p, frame)
      BY <1>2, <2>3 DEF Connect
    <3>. HIDE DEF frame, way, keeps, mine
    <3>4. eph' \in Nat /\ pend' \in [Peers -> Nat \cup {None}] /\ plink' \in [Peers -> Links \cup {None}]
      BY <3>0, <3>1, <3>3 DEF CoreTypes
    <3>5. Carries(chan)'
      <4>1. CASE keeps = l
        <5> DEFINE q == Other(p)
        <5>1. q \in Peers /\ Append(chan[l][q], frame) \in Seq(FramesTo(q))
          BY <3>1, <3>2 DEF Carries
        <5>2. chan' = [chan EXCEPT ![l][q] = Append(@, frame)]
          BY <3>3, <4>1
        <5>. HIDE DEF q
        <5>. QED BY <3>1, <5>1, <5>2 DEF Carries
      <4>2. CASE keeps # l
        <5>1. Carries(Put(chan, way, p, frame))
          BY <3>1, <3>2, PutCarries
        <5>. QED BY <3>3, <4>2, <5>1 DEF Carries
      <4>. QED BY <4>1, <4>2
    <3>. QED BY <2>1, <3>4, <3>5 DEF CoreTypes
  <2>. QED BY <2>2, <2>3
<1>3. ASSUME NEW l \in Links, LinkDead(p, l) PROVE IInv'
  <2> DEFINE left == IF plink[p] = l THEN None ELSE plink[p]
             lost == IF p \in link[l].known /\ left = None /\ ~lan[p] /\ ~relay[p]
                     THEN {m \in Out(p) : sess[p].out[m].route = l} ELSE {}
  <2>1. /\ plink' = [plink EXCEPT ![p] = left]
        /\ sess' = (IF lost = {} THEN sess ELSE [sess EXCEPT ![p] = Without(@, lost)])
        /\ verdict' = Settle(p, lost, "failed")
        /\ UNCHANGED <<pend, chan, eph, sent, emitted, forgotten>>
    BY <1>3 DEF LinkDead
  <2>2. lost \subseteq Out(p)
    OBVIOUS
  <2>3. plink' \in [Peers -> Links \cup {None}]
    BY <2>1 DEF CoreTypes
  <2>. HIDE DEF lost, left
  <2>4. sess' \in [Peers -> Sessions \cup {None}] /\ Sound' /\ Shown'
    BY <2>1, <2>2, FailInv
  <2>. QED BY <2>1, <2>3, <2>4 DEF CoreTypes, Carries
<1>. QED BY <1>1, <1>2, <1>3 DEF Dialer

\* The relay: down, up, a frame it refuses and the word of it.
LEMMA RelayInv ==
    ASSUME IInv, NEW p \in Peers, RelayStep(p)
    PROVE  IInv'
<1> USE DEF IInv
<1>0. Relay \in Ways /\ Other(p) \in Peers /\ Other(p) # p
  BY OtherPeer DEF Ways
<1>1. CASE RelayDown(p) \/ RelayUp(p)
  <2>1. sess' \in [Peers -> Sessions \cup {None}] /\ Sound' /\ Shown'
    BY <1>1, Quiet DEF RelayDown, RelayUp
  <2>2. UNCHANGED <<eph, pend, plink, chan>>
    BY <1>1 DEF RelayDown, RelayUp, network
  <2>. QED BY <2>1, <2>2 DEF CoreTypes, Carries
<1>2. CASE RelayRefuses(p)
  <2> DEFINE q == Other(p)
  <2>1. sess' \in [Peers -> Sessions \cup {None}] /\ Sound' /\ Shown'
    BY <1>2, Quiet DEF RelayRefuses, core
  <2>2. /\ Tail(chan[Relay][q]) \in Seq(FramesTo(q))
        /\ Append(chan[Relay][p], [kind |-> "refused"]) \in Seq(FramesTo(p))
    BY <1>0, <1>2, FramesSent DEF RelayRefuses, Carries
  <2> DEFINE now == [r \in Peers |-> IF r = p THEN Append(chan[Relay][p], [kind |-> "refused"])
                                     ELSE Tail(chan[Relay][r])]
  <2>3. chan' = [chan EXCEPT ![Relay] = now] /\ UNCHANGED <<eph, pend, plink>>
    BY <1>2 DEF RelayRefuses, core
  <2>4. \A r \in Peers : now[r] \in Seq(FramesTo(r))
    <3>1. \A r \in Peers : r = p \/ r = q
      BY DEF Peers, Other
    <3>. QED BY <2>2, <3>1
  <2>. HIDE DEF q
  <2>5. Carries(chan)'
    <3>1. now = [r \in Peers |-> now[r]]
      OBVIOUS
    <3>. HIDE DEF now
    <3>2. chan'[Relay] = now /\ DOMAIN chan' = Ways /\ \A l \in Ways \ {Relay} : chan'[l] = chan[l]
      BY <1>0, <2>3 DEF Carries
    <3>. QED BY <2>4, <3>1, <3>2 DEF Carries
  <2>. QED BY <2>1, <2>3, <2>5 DEF CoreTypes
<1>3. CASE RefusedArrives(p)
  <2> DEFINE relayed == {m \in Out(p) : sess[p].out[m].route = Relay}
  <2>1. /\ sess' = (IF relayed = {} THEN sess ELSE [sess EXCEPT ![p] = Without(@, relayed)])
        /\ verdict' = Settle(p, relayed, "failed") /\ chan' = Rest(p, Relay) /\ chan[Relay][p] # <<>>
        /\ UNCHANGED <<plink, eph, sent, emitted, forgotten>>
    BY <1>3 DEF RefusedArrives, Arrives
  <2>2. relayed \subseteq Out(p)
    OBVIOUS
  <2>3. pend' \in [Peers -> Nat \cup {None}]
    BY <1>3 DEF RefusedArrives, CoreTypes
  <2>. HIDE DEF relayed
  <2>4. sess' \in [Peers -> Sessions \cup {None}] /\ Sound' /\ Shown'
    BY <2>1, <2>2, FailInv
  <2>5. Carries(Rest(p, Relay))
    BY <1>0, <2>1, RestCarries
  <2>. QED BY <2>1, <2>3, <2>4, <2>5 DEF CoreTypes, Carries
<1>. QED BY <1>1, <1>2, <1>3 DEF RelayStep

\* Handshake frames, and frames that open under no session or get lost.
LEMMA HandshakeInv ==
    ASSUME IInv, NEW p \in Peers, NEW l \in Ways,
           InitIgnored(p, l) \/ InitAnswered(p, l) \/ RespArrives(p, l) \/ Dropped(p, l) \/ Lose(p, l)
    PROVE  IInv'
<1> USE DEF IInv
<1>1. CASE InitIgnored(p, l) \/ Dropped(p, l)
  <2>1. sess' \in [Peers -> Sessions \cup {None}] /\ Sound' /\ Shown'
    BY <1>1, Quiet DEF InitIgnored, Dropped
  <2>2. chan' = Rest(p, l) /\ Carries(Rest(p, l)) /\ UNCHANGED eph
    BY <1>1, RestCarries DEF InitIgnored, Dropped, Arrives
  <2>3. pend' \in [Peers -> Nat \cup {None}]
    BY <1>1 DEF InitIgnored, Dropped, CoreTypes
  <2>4. plink' \in [Peers -> Links \cup {None}]
    BY <1>1, LinkedTypes DEF InitIgnored, Dropped
  <2>. QED BY <2>1, <2>2, <2>3, <2>4 DEF CoreTypes, Carries
<1>2. CASE Lose(p, l)
  <2>1. sess' \in [Peers -> Sessions \cup {None}] /\ Sound' /\ Shown'
    BY <1>2, Quiet DEF Lose, core
  <2>2. chan' = [chan EXCEPT ![l][p] = <<>>] /\ UNCHANGED <<eph, pend, plink>>
    BY <1>2 DEF Lose, core
  <2>3. <<>> \in Seq(FramesTo(p))
    OBVIOUS
  <2>4. Carries(chan)'
    BY <2>2, <2>3 DEF Carries
  <2>. QED BY <2>1, <2>2, <2>4 DEF CoreTypes
<1>3. CASE InitAnswered(p, l)
  <2> DEFINE e    == Head1(p, l).eph
             key  == <<e, eph + 1>>
             back == l # Relay /\ p \in link'[l].open
             pl   == IF back THEN Kept(p, l) ELSE Live(p, Kept(p, l), link')
             way  == IF back THEN l ELSE Path(p, pl)
             frame == [kind |-> "resp", eph |-> eph + 1]
             s    == Session(key, Empty, {}, {e})
  <2>1. e \in Nat /\ Carries(Rest(p, l)) /\ eph + 1 \in Nat
    BY <1>3, RestCarries, FrameKinds DEF InitAnswered, Arrives, CoreTypes
  <2>2. chan' = Put(Rest(p, l), way, p, frame)
    BY <1>3 DEF InitAnswered
  <2>3. sess' = sess \/ (sess[p] = None /\ sess' = [sess EXCEPT ![p] = s])
    BY <1>3 DEF InitAnswered
  <2>4. pl \in Links \cup {None} /\ way \in Ways \cup {None}
    <3>1. pl \in Links \cup {None}
      BY Routes
    <3>. HIDE DEF pl, back
    <3>. QED BY <3>1, Routes
  <2>5. frame \in FramesTo(Other(p))
    BY <2>1, OtherPeer, FramesSent
  <2>9. plink' \in [Peers -> Links \cup {None}]
    <3>1. plink' = [plink EXCEPT ![p] = pl]
      BY <1>3 DEF InitAnswered
    <3>. HIDE DEF pl
    <3>. QED BY <2>4, <3>1 DEF CoreTypes
  <2>. HIDE DEF way, frame, e, pl, back
  <2>6. Carries(Put(Rest(p, l), way, p, frame))
    BY <2>1, <2>4, <2>5, PutCarries
  <2>7. Carries(chan)'
    BY <2>2, <2>6 DEF Carries
  <2>8. eph' \in Nat /\ pend' \in [Peers -> Nat \cup {None}] /\ UNCHANGED history
    BY <1>3, <2>1 DEF InitAnswered, CoreTypes
  <2>10. sess' \in [Peers -> Sessions \cup {None}] /\ Sound' /\ Shown'
    <3>1. CASE sess' = sess
      BY <2>8, <3>1, Quiet
    <3>2. CASE sess[p] = None /\ sess' = [sess EXCEPT ![p] = s]
      <4>1. key \in Keys /\ {e} \in SUBSET Nat /\ {} \in SUBSET Mids
        BY <2>1 DEF Keys
      <4>. HIDE DEF key
      <4>2. s \in Sessions
        BY <4>1, EmptyOut, SessionMade
      <4>3. s.out = Empty
        BY SessionFields
      <4>4. Out(p) = {}
        BY <3>2 DEF Out
      <4>5. emitted' \in [Mids -> Nat] /\ UNCHANGED <<verdict, sent, emitted, forgotten>>
        BY <2>8 DEF history, Sound, HistoryTypes
      <4>6. DOMAIN s.out = Out(p)
        BY <4>3, <4>4, EmptyOut
      <4>. HIDE DEF s
      <4>7. Sound'
        BY <3>2, <4>2, <4>4, <4>5, <4>6, FlightStays
      <4>8. Shown'
        BY <3>2, <4>2, <4>5, ShownGoesOn
      <4>. QED BY <3>2, <4>2, <4>7, <4>8, OutNext
    <3>. QED BY <2>3, <3>1, <3>2
  <2>. QED BY <2>7, <2>8, <2>9, <2>10 DEF CoreTypes
<1>4. CASE RespArrives(p, l)
  <2> DEFINE r == Head1(p, l).eph
             c == Carried(p)
             key == <<pend[p], r>>
             s == Session(key, c.out, c.seen, c.ephs \cup {r})
  <2>1. r \in Nat /\ Carries(Rest(p, l))
    BY <1>4, RestCarries, FrameKinds DEF RespArrives, Arrives
  <2>2. chan' = Rest(p, l) /\ UNCHANGED <<eph, history>> /\ pend' \in [Peers -> Nat \cup {None}]
    BY <1>4 DEF RespArrives, CoreTypes
  <2>3. plink' \in [Peers -> Links \cup {None}]
    BY <1>4, LinkedTypes DEF RespArrives
  <2>4. sess' = sess \/ (pend[p] # None /\ sess' = [sess EXCEPT ![p] = s])
    BY <1>4 DEF RespArrives
  <2>5. sess' \in [Peers -> Sessions \cup {None}] /\ Sound' /\ Shown'
    <3>1. CASE sess' = sess
      BY <2>2, <3>1, Quiet
    <3>2. CASE pend[p] # None /\ sess' = [sess EXCEPT ![p] = s]
      <4>1. key \in Keys
        BY <2>1, <3>2 DEF CoreTypes, Keys
      <4>. HIDE DEF key, r
      <4>2. c.ephs \cup {r} \in SUBSET Nat /\ c.seen \in SUBSET Mids
        BY <2>1, CarriedOn
      <4>3. s \in Sessions
        BY <4>1, <4>2, CarriedSession
      <4>4. s.out = c.out /\ s.seen = c.seen
        BY SessionFields
      <4>5. DOMAIN c.out = Out(p) /\ (\A m \in Out(p) : c.out[m] = sess[p].out[m])
            /\ (sess[p] # None => sess[p].seen = c.seen)
        BY CarriedOn
      <4>6. emitted' \in [Mids -> Nat] /\ UNCHANGED <<verdict, sent, emitted, forgotten>>
        BY <2>2 DEF history, Sound, HistoryTypes
      <4>. HIDE DEF s, c
      <4>7. Sound'
        <5>1. DOMAIN s.out = Out(p) /\ \A m \in Out(p) : s.out[m] = sess[p].out[m]
          BY <4>4, <4>5
        <5>. QED BY <3>2, <4>3, <4>6, <5>1, FlightStays
      <4>8. Shown'
        BY <3>2, <4>3, <4>4, <4>5, <4>6, ShownGoesOn
      <4>. QED BY <3>2, <4>3, <4>7, <4>8, OutNext
    <3>. QED BY <2>4, <3>1, <3>2
  <2>. QED BY <2>1, <2>2, <2>3, <2>5 DEF CoreTypes, Carries
<1>. QED BY <1>1, <1>2, <1>3, <1>4

\* Payloads: a message, an acknowledgement, a ping or its answer.
LEMMA PayloadInv ==
    ASSUME IInv, NEW p \in Peers, NEW l \in Ways,
           MsgArrives(p, l) \/ AckArrives(p, l) \/ PingArrives(p, l)
    PROVE  IInv'
<1> USE DEF IInv
<1> DEFINE f == Head1(p, l)
           n == Now(p, f)
<1>1. chan[l][p] # <<>> /\ Opened(p, l, f) /\ UNCHANGED <<pend, eph>>
  BY DEF MsgArrives, AckArrives, PingArrives, Arrives
<1>2. f \in FramesTo(p) /\ Carries(Rest(p, l))
  BY <1>1, RestCarries
<1>3. f.key \in Keys
  BY <1>2, FrameKinds DEF MsgArrives, AckArrives, PingArrives, Arrives
<1>5. /\ n \in Sessions /\ DOMAIN n.out = Out(p) /\ (\A m \in Out(p) : n.out[m] = sess[p].out[m])
      /\ n.seen = IF sess[p] = None THEN {} ELSE sess[p].seen
  BY <1>3, NowSession
<1>6. Other(p) \in Peers /\ Other(p) # p /\ Other(Other(p)) = p
  BY OtherPeer
<1>7. CASE MsgArrives(p, l)
  <2> DEFINE s == Session(n.key, n.out, n.seen \cup {f.mid}, n.ephs)
             ack == [kind |-> "ack", key |-> f.key, mid |-> f.mid]
  <2>1. f.mid \in Mids /\ Author[f.mid] = Other(p)
    BY <1>2, <1>7, FrameKinds DEF MsgArrives, Arrives
  <2>2. [n EXCEPT !.seen = @ \cup {f.mid}] = s
    <3>. HIDE DEF n, f
    <3>. QED BY <1>5, SeenMore
  <2>3. /\ sess' = [sess EXCEPT ![p] = s] /\ Control(p, l, f, ack)
        /\ emitted' = (IF f.mid \in n.seen THEN emitted ELSE [emitted EXCEPT ![f.mid] = @ + 1])
        /\ UNCHANGED <<verdict, sent, forgotten>>
    BY <1>7, <2>2 DEF MsgArrives
  <2>4. s \in Sessions
    BY <1>5, <2>1, SessionParts, SessionMade
  <2>5. s.out = n.out /\ s.seen = n.seen \cup {f.mid}
    BY SessionFields
  <2>6. ack \in FramesTo(Other(p))
    BY <1>3, <1>6, <2>1, FramesSent
  <2>. HIDE DEF s, n, ack, f
  <2>7. Carries(chan)' /\ plink' \in [Peers -> Links \cup {None}]
    BY <1>1, <2>3, <2>6, ControlCarries
  <2>8. emitted' \in [Mids -> Nat]
    BY <2>1, <2>3 DEF Sound, HistoryTypes
  <2>9. Sound'
    <3>1. DOMAIN s.out = Out(p) /\ \A m \in Out(p) : s.out[m] = sess[p].out[m]
      BY <1>5, <2>5
    <3>. QED BY <2>3, <2>4, <2>8, <3>1, FlightStays
  <2>10. /\ sess'[p] = s /\ s # None /\ (\A q \in Peers \ {p} : sess'[q] = sess[q])
         /\ sess' \in [Peers -> Sessions \cup {None}]
    BY <2>3, <2>4, OutNext, NoneAssumption
  <2>11. Shown'
    <3> SUFFICES ASSUME NEW m \in Mids, emitted'[m] > 0, m \notin forgotten
                 PROVE  /\ emitted'[m] = 1
                        /\ sess'[Other(Author[m])] # None /\ m \in sess'[Other(Author[m])].seen
      BY <2>3 DEF Shown
    <3>1. Other(Author[m]) \in Peers
      BY AuthorAssumption, OtherPeer
    <3>2. emitted[m] > 0 =>
            /\ emitted[m] = 1
            /\ sess[Other(Author[m])] # None /\ m \in sess[Other(Author[m])].seen
      BY DEF Shown
    <3>3. CASE m = f.mid
      <4>1. Other(Author[m]) = p
        BY <1>6, <2>1, <3>3
      <4>2. CASE m \in n.seen
        BY <1>5, <2>3, <2>5, <2>10, <3>2, <3>3, <4>1, <4>2
      <4>3. CASE m \notin n.seen
        <5>1. ~(emitted[m] > 0)
          BY <1>5, <3>2, <4>1, <4>3
        <5>2. emitted[m] = 0 /\ emitted'[m] = emitted[m] + 1
          BY <2>3, <3>3, <4>3, <5>1 DEF Sound, HistoryTypes
        <5>. QED BY <2>5, <2>10, <3>3, <4>1, <5>2
      <4>. QED BY <4>2, <4>3
    <3>4. CASE m # f.mid
      <4>1. emitted'[m] = emitted[m]
        BY <2>1, <2>3, <3>4 DEF Sound, HistoryTypes
      <4>2. CASE Other(Author[m]) = p
        BY <1>5, <2>5, <2>10, <3>2, <4>1, <4>2
      <4>3. CASE Other(Author[m]) # p
        BY <2>10, <3>1, <3>2, <4>1, <4>3
      <4>. QED BY <4>2, <4>3
    <3>. QED BY <3>3, <3>4
  <2>. QED BY <1>1, <2>7, <2>9, <2>10, <2>11 DEF CoreTypes
<1>8. CASE AckArrives(p, l)
  <2> DEFINE s == Without(n, {f.mid})
  <2>1. /\ sess' = [sess EXCEPT ![p] = s] /\ verdict' = Settle(p, {f.mid}, "delivered")
        /\ Quietly(p, l, f) /\ UNCHANGED <<sent, emitted, forgotten>>
    BY <1>8 DEF AckArrives
  <2>2. /\ s \in Sessions /\ s.seen = n.seen /\ DOMAIN s.out = Out(p) \ {f.mid}
        /\ \A m \in DOMAIN s.out : s.out[m] = sess[p].out[m]
    <3>. HIDE DEF n
    <3>. QED BY <1>5, WithoutSession
  <2>3. emitted' \in [Mids -> Nat]
    BY <2>1 DEF Sound, HistoryTypes
  <2>. HIDE DEF s, n, f
  <2>4. Sound'
    BY <2>1, <2>2, <2>3, FlightGoesOn
  <2>5. Shown'
    BY <1>5, <2>1, <2>2, ShownGoesOn
  <2>6. sess' \in [Peers -> Sessions \cup {None}]
    BY <2>1, <2>2, OutNext
  <2>7. Carries(chan)' /\ plink' \in [Peers -> Links \cup {None}]
    BY <1>1, <2>1, QuietlyCarries
  <2>. QED BY <1>1, <2>4, <2>5, <2>6, <2>7 DEF CoreTypes
<1>9. CASE PingArrives(p, l)
  <2>1. sess' = [sess EXCEPT ![p] = n] /\ UNCHANGED <<verdict, sent, emitted, forgotten>>
    BY <1>9 DEF PingArrives, history
  <2>2. Quietly(p, l, f) \/ Control(p, l, f, [kind |-> "pong", key |-> f.key])
    BY <1>9 DEF PingArrives
  <2>3. [kind |-> "pong", key |-> f.key] \in FramesTo(Other(p))
    BY <1>3, <1>6, FramesSent
  <2>4. emitted' \in [Mids -> Nat]
    BY <2>1 DEF Sound, HistoryTypes
  <2>. HIDE DEF n, f
  <2>5. Carries(chan)' /\ plink' \in [Peers -> Links \cup {None}]
    <3>1. CASE Quietly(p, l, f)
      BY <1>1, <3>1, QuietlyCarries
    <3>2. CASE Control(p, l, f, [kind |-> "pong", key |-> f.key])
      BY <1>1, <2>3, <3>2, ControlCarries
    <3>. QED BY <2>2, <3>1, <3>2
  <2>6. Sound'
    BY <1>5, <2>1, <2>4, FlightStays
  <2>7. Shown'
    BY <1>5, <2>1, ShownGoesOn
  <2>8. sess' \in [Peers -> Sessions \cup {None}]
    BY <1>5, <2>1, OutNext
  <2>. QED BY <1>1, <2>5, <2>6, <2>7, <2>8 DEF CoreTypes
<1>. QED BY <1>7, <1>8, <1>9

\* Two peers without sessions, links or messages.
LEMMA InitInv == Init => IInv
<1> SUFFICES ASSUME Init PROVE IInv
  OBVIOUS
<1>1. CoreTypes /\ HistoryTypes
  BY DEF Init, CoreTypes, HistoryTypes
<1>2. \A p \in Peers : Out(p) = {}
  BY DEF Init, Out
<1>3. Carries(chan)
  <2>1. \A q \in Peers : <<>> \in Seq(FramesTo(q))
    OBVIOUS
  <2>. QED BY <2>1 DEF Init, Carries
<1>4. InFlight /\ NoStranded
  BY <1>2, AuthorAssumption DEF Init, InFlight, NoStranded
<1>5. RetryBudget /\ Shown
  BY BoundsAssumption DEF Init, RetryBudget, Shown
<1>. QED BY <1>1, <1>3, <1>4, <1>5 DEF IInv, Sound

\* Every step preserves the invariant.
LEMMA NextInv == IInv /\ [Next]_vars => IInv'
<1> SUFFICES ASSUME IInv, [Next]_vars PROVE IInv'
  OBVIOUS
<1>1. CASE UNCHANGED vars
  <2>1. UNCHANGED <<sess, pend, plink, eph, chan, history>>
    BY <1>1 DEF vars, core, network
  <2>2. sess' \in [Peers -> Sessions \cup {None}] /\ Sound' /\ Shown'
    BY <2>1, Quiet DEF IInv
  <2>. QED BY <2>1, <2>2 DEF IInv, CoreTypes, Carries
<1>2. ASSUME NEW p \in Peers, NEW l \in Ways, Frame(p, l) PROVE IInv'
  BY <1>2, HandshakeInv, PayloadInv DEF Frame
<1>. QED BY <1>1, <1>2, UserInv, TickInv, DialerInv, RelayInv DEF Next
------------------------------------------------------------------------------
(* Theorems.                                                                *)

\* The invariant holds in every reachable state.
THEOREM Inductive == Spec => []IInv
  BY InitInv, NextInv, PTL DEF Spec

\* A message reads "sending" exactly while its author's session has it in flight,
\* through every close, replacement, dead link and refusal (settle, end_session).
THEOREM NoMessageIsStranded == Spec => []NoStranded
<1>1. IInv => NoStranded
  BY DEF IInv, Sound
<1>. QED BY <1>1, Inductive, PTL

\* A message is tried at most MAX_SEND_ATTEMPTS times, over any number of sessions
\* (reap_unacknowledged, take_carryover).
THEOREM RetriesAreBounded == Spec => []RetryBudget
<1>1. IInv => RetryBudget
  BY DEF IInv, Sound
<1>. QED BY <1>1, Inductive, PTL

\* A message is shown once while the addressee has not ended the session that
\* showed it (seen_mids).
THEOREM MessagesAreShownOnce == Spec => []ShownOnce
<1>1. IInv => ShownOnce
  BY DEF IInv, Shown, ShownOnce, Sound, HistoryTypes
<1>. QED BY <1>1, Inductive, PTL
==============================================================================
