------------------------- MODULE MovementPathProofs -------------------------
(***************************************************************************)
(* Theorems about the way of a player's state from publisher to observer,  *)
(* for any looks, rates and bounds, any reordering window, and a network   *)
(* that loses and duplicates datagrams or does not.                        *)
(***************************************************************************)
EXTENDS MovementPath, SharedLemmas, TLAPS


\* Taking a datagram, lost, duplicated or not, adds none.
LEMMA TakenAddsNothing ==
    ASSUME NEW S, NEW ch \in Seq(S), NEW k \in Arrivals(ch), NEW rest \in Taken(ch, k)
    PROVE  rest \in Seq(S) /\ Range(rest) \subseteq Range(ch) /\ ch[k] \in Range(ch)
<1>1. k \in 1 .. Len(ch) /\ k \in DOMAIN ch
  BY DEF Arrivals
<1>. QED  BY <1>1, RangeRemoveAt DEF Taken, Range

-----------------------------------------------------------------------------
(***************************************************************************)
(* The order of relayed states                                             *)
(***************************************************************************)

LexLess(x, y) == x.seq < y.seq \/ (x.seq = y.seq /\ x.tick < y.tick)

SameStamps(x, y) == x.seq = y.seq /\ x.tick = y.tick

\* Stamps never order two states against the processes they come from.
InStep(x, y) == (LexLess(x, y) => x.run <= y.run) /\ (SameStamps(x, y) => x.run = y.run)

Stamped(x) == x.seq \in Nat \ {0} /\ x.tick \in Nat \ {0} /\ x.run \in Nat

\* K: the states that were relayed and may be seen again; last: the newest one.
\* late: whether an older process may have got the slot back.
Relayed(last, K, late) ==
    /\ last.seq \in Nat /\ last.tick \in Nat /\ last.run \in Nat
    /\ \A x \in K : /\ Stamped(x)
                    /\ LexLess(x, last) \/ SameStamps(x, last)
                    /\ late \/ InStep(x, last)
    /\ \A x, y \in K : late \/ InStep(x, y)

LEMMA RelayedFewer ==
    ASSUME NEW last, NEW K, NEW late, Relayed(last, K, late), NEW L \in SUBSET K
    PROVE  Relayed(last, L, late)
  BY DEF Relayed

\* A late HELLO: from now on only the stamps are in order.
LEMMA RelayedLate ==
    ASSUME NEW last, NEW K, NEW late \in BOOLEAN, NEW later \in BOOLEAN,
           Relayed(last, K, late), late => later
    PROVE  Relayed(last, K, later)
  BY DEF Relayed

\* Another copy of a state: a duplicate, or what the proxy keeps of it.
LEMMA RelayedCopy ==
    ASSUME NEW last, NEW K, NEW late \in BOOLEAN, Relayed(last, K, late), NEW x \in K, NEW y,
           SameStamps(y, x), y.run = x.run
    PROVE  Relayed(last, K \cup {y}, late)
<1>1. Stamped(x) /\ Stamped(y)
  BY DEF Relayed, Stamped, SameStamps
<1>2. /\ LexLess(y, last) \/ SameStamps(y, last)
      /\ late \/ InStep(y, last)
      /\ InStep(y, y)
  BY <1>1 DEF Relayed, SameStamps, LexLess, InStep, Stamped
<1>3. ASSUME NEW z \in K, ~late  PROVE InStep(z, y) /\ InStep(y, z)
  <2>1. InStep(z, x) /\ InStep(x, z) /\ Stamped(z)
    BY <1>3 DEF Relayed
  <2>. QED  BY <2>1, <1>1 DEF InStep, SameStamps, LexLess, Stamped
<1>. QED  BY <1>1, <1>2, <1>3 DEF Relayed

\* The newest state is sent once more: a replay, or an input that changed it.
LEMMA RelayedAgain ==
    ASSUME NEW last, NEW K, NEW late \in BOOLEAN, Relayed(last, K, late), NEW y,
           SameStamps(y, last), y.run = last.run, last.seq # 0, last.tick # 0
    PROVE  Relayed(last, K \cup {y}, late)
<1>1. Stamped(last) /\ Stamped(y)
  BY DEF Relayed, Stamped, SameStamps
<1>2. InStep(y, last) /\ InStep(y, y)
  BY <1>1 DEF SameStamps, LexLess, InStep, Stamped
<1>3. ASSUME NEW z \in K, ~late  PROVE InStep(z, y) /\ InStep(y, z)
  <2>1. InStep(z, last) /\ Stamped(z) /\ (LexLess(z, last) \/ SameStamps(z, last))
    BY <1>3 DEF Relayed
  <2>. QED  BY <2>1, <1>1 DEF InStep, SameStamps, LexLess, Stamped
<1>. QED  BY <1>1, <1>2, <1>3 DEF Relayed

\* A newer state takes its place: unless it is late, one of the same or a later
\* process.
LEMMA RelayedNewer ==
    ASSUME NEW last, NEW K, NEW late \in BOOLEAN, Relayed(last, K, late), NEW m, Stamped(m),
           LexLess(last, m), late \/ last.run <= m.run
    PROVE  Relayed(m, K, late) /\ Relayed(m, K \cup {m}, late)
<1>1. InStep(m, m)
  BY DEF InStep, Stamped
<1>2. ASSUME NEW z \in K  PROVE Stamped(z) /\ LexLess(z, m)
  <2>1. Stamped(z) /\ (LexLess(z, last) \/ SameStamps(z, last))
    BY DEF Relayed
  <2>2. last.seq \in Nat /\ last.tick \in Nat
    BY DEF Relayed
  <2>. QED  BY <2>1, <2>2 DEF SameStamps, LexLess, Stamped
<1>3. ASSUME NEW z \in K, ~late  PROVE InStep(z, m) /\ InStep(m, z)
  <2>1. InStep(z, last) /\ Stamped(z) /\ (LexLess(z, last) \/ SameStamps(z, last))
    BY <1>3 DEF Relayed
  <2>2. last.seq \in Nat /\ last.tick \in Nat /\ last.run \in Nat
    BY DEF Relayed
  <2>. QED  BY <1>3, <2>1, <2>2 DEF InStep, SameStamps, LexLess, Stamped
<1>. QED  BY <1>1, <1>2, <1>3 DEF Relayed, Stamped, SameStamps

\* psr_evaluate lets pass only what is newer than the last state, once every
\* state carries both stamps.
LEMMA AcceptedIsNewer ==
    ASSUME NEW s, s.seq \in Nat, s.tick \in Nat, NEW m, Stamped(m), psr_evaluate(s, m)
    PROVE  LexLess(s, m) \/ (s.tick = 0 /\ s.seq = m.seq)
  BY DEF Stamped, psr_evaluate, SequenceAccepts, TickAccepts, LexLess

-----------------------------------------------------------------------------
(***************************************************************************)
(* The inductive invariant                                                 *)
(***************************************************************************)

Publishers ==
    [conn : Nat, joined : BOOLEAN, run : Nat, look : Looks, seq : Nat, tick : Nat,
     have : BOOLEAN, last : Looks, quiet : Nat, emit : Nat]

Counters == [moves : Nat, inputs : Nat, opens : Nat, hellos : Nat]

StateMessages ==
    [kind : {"state"}, who : {0, 1}, seq : Nat, tick : Nat, look : Looks, run : Nat]

UpBodies ==
    StateMessages \cup [kind : {"hello"}, run : Nat]
      \cup [kind : {"input"}, look : Looks] \cup [kind : {"disconnect"}]

Upward == [conn : Nat, body : UpBodies]

Downward == StateMessages \cup {Left}

Proxies == [in_use : BOOLEAN, seq : Nat, tick : Nat, look : Looks, run : Nat]

Slots == [connected : BOOLEAN, conn : Nat, stats : Stamps, state : StateMessages]

TypeOK ==
    /\ pub \in Publishers
    /\ made \in Counters
    /\ up \in Seq(Upward)
    /\ slot \in Slots
    /\ greeted \in [conns : SUBSET Nat, run : Nat, late : BOOLEAN]
    /\ down \in Seq(Downward)
    /\ watching \in BOOLEAN
    /\ proxy \in Proxies

\* The datagrams on their way up that tell the process they come from.
Signed == {m \in Range(up) : m.body.kind \in {"state", "hello"}}

\* All that was sent over one connection comes from one process; and the
\* connection the slot is turned to is one of the process whose HELLO came last.
\* Until a HELLO comes late, that process is none before that of the state in
\* the slot.
UpInv ==
    /\ pub.conn <= made.opens
    /\ pub.joined => pub.conn # 0
    /\ slot.conn <= made.opens
    /\ \A m \in Range(up) : m.conn <= made.opens
    /\ \A m \in Range(up) : m.body.kind = "state" => m.body.who = 1 /\ Stamped(m.body)
    /\ \A m \in Signed : pub.conn # 0 /\ m.conn = pub.conn => m.body.run = pub.run
    /\ \A m, n \in Signed : m.conn = n.conn => m.body.run = n.body.run
    /\ \A m \in Signed : slot.connected /\ m.conn = slot.conn => m.body.run = greeted.run
    /\ slot.connected /\ pub.conn # 0 /\ pub.conn = slot.conn => pub.run = greeted.run
    /\ greeted.late \/ slot.state.run <= greeted.run

\* The states the observer may still show.
Sent == {m \in Range(down) : m.kind = "state" /\ m.who = 1}

Shown == IF proxy.in_use THEN {proxy} ELSE {}

DownInv ==
    /\ SameStamps(slot.stats, slot.state)
    /\ slot.state.who = 0 => slot.state.seq = 0 /\ slot.state.tick = 0
    /\ slot.state.who = 1 => slot.state.seq # 0 /\ slot.state.tick # 0
    /\ Relayed(slot.state, Sent \cup Shown, greeted.late)

IInv == TypeOK /\ UpInv /\ DownInv

LEMMA InitHolds ==
    Init => IInv
<1> SUFFICES ASSUME Init PROVE IInv
  OBVIOUS
<1>0. (CHOOSE l \in Looks : TRUE) \in Looks
  BY PathAssumption
<1>1. TypeOK
  <2>1. pub \in Publishers
    <3>1. PICK l \in Looks : pub = NewProcess(1, l)
      BY DEF Init
    <3>. QED  BY <3>1 DEF NewProcess, Publishers
  <2>2. NoState \in StateMessages /\ NoStats \in Stamps /\ NoProxy \in Proxies
    <3> DEFINE c == CHOOSE l \in Looks : TRUE
    <3>1. /\ NoState = [kind |-> "state", who |-> 0, seq |-> 0, tick |-> 0, look |-> c, run |-> 0]
          /\ NoProxy = [in_use |-> FALSE, seq |-> 0, tick |-> 0, look |-> c, run |-> 0]
      BY DEF NoState, NoProxy
    <3>2. c \in Looks
      BY <1>0
    <3> HIDE DEF c
    <3>. QED  BY <3>1, <3>2 DEF NoStats, Stamps, StateMessages, Proxies
  <2>3. /\ proxy \in Proxies /\ watching \in BOOLEAN
        /\ up \in Seq(Upward) /\ down \in Seq(Downward)
    <3>1. proxy = NoProxy /\ watching = FALSE /\ up = <<>> /\ down = <<>>
      BY DEF Init
    <3>2. up \in Seq(Upward)
      BY <3>1, EmptySeq
    <3>3. down \in Seq(Downward)
      BY <3>1, EmptySeq
    <3>. QED  BY <2>2, <3>1, <3>2, <3>3
  <2>4. slot \in Slots
    BY <2>2 DEF Init, Slots
  <2>5. made \in Counters /\ greeted \in [conns : SUBSET Nat, run : Nat, late : BOOLEAN]
    BY DEF Init, Counters
  <2>. QED  BY <2>1, <2>3, <2>4, <2>5 DEF TypeOK
<1>2. Range(up) = {} /\ Range(down) = {}
  BY DEF Init, Range
<1>3. UpInv
  BY <1>2 DEF Init, UpInv, Signed, NewProcess, NoState
<1>4. DownInv
  BY <1>2 DEF Init, DownInv, Sent, Shown, NoProxy, NoState, NoStats, SameStamps, Relayed
<1>. QED  BY <1>1, <1>3, <1>4 DEF IInv

-----------------------------------------------------------------------------
(***************************************************************************)
(* The publisher's steps                                                   *)
(***************************************************************************)

\* The observer's side rests on what the publisher's steps leave alone.
LEMMA DownUnchanged ==
    ASSUME DownInv, slot'.stats = slot.stats, slot'.state = slot.state,
           UNCHANGED <<greeted, down, proxy>>
    PROVE  DownInv'
  BY DEF DownInv, Sent, Shown

\* A datagram of the open connection is added.
LEMMA SendHolds ==
    ASSUME TypeOK, UpInv, pub.conn # 0, NEW body \in UpBodies,
           body.kind = "state" => body.who = 1 /\ Stamped(body),
           body.kind \in {"state", "hello"} => body.run = pub.run,
           up' = Append(up, [conn |-> pub.conn, body |-> body]),
           pub'.run = pub.run, pub'.conn \in {0, pub.conn}, pub'.joined => pub'.conn # 0,
           made'.opens = made.opens, UNCHANGED <<slot, greeted>>
    PROVE  up' \in Seq(Upward) /\ UpInv'
<1> DEFINE d == [conn |-> pub.conn, body |-> body]
<1>1. d \in Upward
  BY DEF TypeOK, Publishers, Upward
<1>2. up' \in Seq(Upward) /\ Range(up') = Range(up) \cup {d}
  <2> HIDE DEF d
  <2>. QED  BY <1>1, RangeAppend DEF TypeOK, d
<1>3. d.conn = pub.conn /\ d.body = body
  OBVIOUS
<1> HIDE DEF d
<1>4. pub.run \in Nat /\ made.opens \in Nat /\ pub.conn \in Nat /\ pub.conn <= made.opens
  BY DEF TypeOK, Publishers, Counters, UpInv
<1>5. /\ Signed' \subseteq Signed \cup {d}
      /\ d \in Signed' => d.body.run = pub.run
  BY <1>2, <1>3 DEF Signed
<1>6. \A m \in Range(up') : m.conn <= made.opens
  BY <1>2, <1>3, <1>4 DEF UpInv
<1>7. \A m \in Range(up') : m.body.kind = "state" => m.body.who = 1 /\ Stamped(m.body)
  BY <1>2, <1>3 DEF UpInv
<1>8. \A m \in Signed' : m.conn = pub.conn => m.body.run = pub.run
  BY <1>5 DEF UpInv
<1>9. \A m, n \in Signed' : m.conn = n.conn => m.body.run = n.body.run
  <2> SUFFICES ASSUME NEW m \in Signed', NEW n \in Signed', m.conn = n.conn
               PROVE  m.body.run = n.body.run
    OBVIOUS
  <2>1. CASE m.conn = pub.conn
    BY <1>8, <2>1
  <2>2. CASE m.conn # pub.conn
    BY <1>3, <1>5, <2>2 DEF UpInv
  <2>. QED  BY <2>1, <2>2
<1>10. \A m \in Signed' : slot.connected /\ m.conn = slot.conn => m.body.run = greeted.run
  BY <1>3, <1>5, <1>8 DEF UpInv
<1>. QED  BY <1>2, <1>4, <1>6, <1>7, <1>8, <1>9, <1>10 DEF UpInv

LEMMA PublisherTicksHolds ==
    IInv /\ PublisherTicks => IInv'
<1> SUFFICES ASSUME IInv, PublisherTicks PROVE IInv'
  OBVIOUS
<1> DEFINE q == [pub EXCEPT !.joined = TRUE]
           p == Observed(q)
<1>0. TypeOK /\ UpInv /\ DownInv /\ MinInterval \in Nat
  BY PathAssumption DEF IInv
<1>1. /\ p \in Publishers /\ p.tick # 0
      /\ p.run = pub.run /\ p.conn = pub.conn
  <2> DEFINE t == IF q.tick - q.emit > MinInterval THEN q.tick ELSE q.tick + 1
  <2>1. q \in Publishers /\ q.joined /\ q.run = pub.run /\ q.conn = pub.conn
    BY <1>0 DEF TypeOK, Publishers
  <2>2. t \in Nat \ {0}
    <3>1. q.tick \in Nat /\ q.emit \in Nat
      BY <2>1 DEF Publishers
    <3> HIDE DEF q
    <3>. QED  BY <1>0, <3>1
  <2>3. p = [q EXCEPT !.tick = t]
    BY DEF Observed
  <2> HIDE DEF t, p, q
  <2>. QED  BY <2>1, <2>2, <2>3 DEF Publishers
<1>2. /\ pub.conn # 0 /\ pub' = msb_build_player_state_if_changed(p)
      /\ up' = IF Emits(p) THEN Append(up, [conn |-> pub.conn, body |-> StateOf(pub')]) ELSE up
      /\ UNCHANGED <<made, slot, greeted, down, watching, proxy>>
  BY DEF PublisherTicks
<1> HIDE DEF p, q
<1>3. pub' \in Publishers /\ pub'.run = pub.run /\ pub'.conn = pub.conn
  <2>1. CASE Emits(p)
    <3> DEFINE n == p.seq + 1
    <3>1. pub' = [p EXCEPT !.seq = n, !.last = p.look, !.have = TRUE, !.quiet = 0, !.emit = p.tick]
      BY <1>2, <2>1 DEF msb_build_player_state_if_changed, Emitted
    <3>2. n \in Nat /\ p.look \in Looks /\ p.tick \in Nat
      BY <1>1 DEF Publishers
    <3> HIDE DEF n
    <3>. QED  BY <1>1, <3>1, <3>2 DEF Publishers
  <2>2. CASE ~Emits(p)
    <3> DEFINE n == IF Changed(p) \/ ForceResend = 0 THEN p.quiet ELSE p.quiet + 1
    <3>1. pub' = [p EXCEPT !.quiet = n]
      BY <1>2, <2>2 DEF msb_build_player_state_if_changed, Kept
    <3>2. n \in Nat
      BY <1>1 DEF Publishers
    <3> HIDE DEF n
    <3>. QED  BY <1>1, <3>1, <3>2 DEF Publishers
  <2>. QED  BY <2>1, <2>2
<1>4. up' \in Seq(Upward) /\ UpInv'
  <2>1. CASE Emits(p)
    <3> DEFINE b == StateOf(pub')
    <3>1. pub'.seq # 0 /\ pub'.tick # 0
      BY <1>1, <1>2, <2>1 DEF msb_build_player_state_if_changed, Emitted, Publishers
    <3>2. b \in StateMessages /\ b.kind = "state" /\ b.who = 1 /\ Stamped(b) /\ b.run = pub.run
      BY <1>3, <3>1 DEF StateOf, StateMessages, Publishers, Stamped
    <3>3. up' = Append(up, [conn |-> pub.conn, body |-> b])
      BY <1>2, <2>1
    <3> HIDE DEF b
    <3>. QED  BY <1>0, <1>2, <1>3, <3>2, <3>3, SendHolds DEF UpBodies
  <2>2. CASE ~Emits(p)
    BY <1>0, <1>2, <1>3, <2>2 DEF UpInv, Signed, TypeOK
  <2>. QED  BY <2>1, <2>2
<1>. QED  BY <1>0, <1>2, <1>3, <1>4, DownUnchanged DEF IInv, TypeOK

\* The bounded counters go up one at a time.
LEMMA OneMore ==
    ASSUME NEW r \in Counters
    PROVE  /\ LET n == [r EXCEPT !.moves = @ + 1]  IN n \in Counters /\ n.opens = r.opens
           /\ LET n == [r EXCEPT !.inputs = @ + 1] IN n \in Counters /\ n.opens = r.opens
           /\ LET n == [r EXCEPT !.hellos = @ + 1] IN n \in Counters /\ n.opens = r.opens
           /\ LET n == [r EXCEPT !.opens = @ + 1]  IN n \in Counters /\ n.opens = r.opens + 1
<1>1. r.moves + 1 \in Nat /\ r.inputs + 1 \in Nat /\ r.opens + 1 \in Nat /\ r.hellos + 1 \in Nat
  BY DEF Counters
<1>. QED  BY <1>1 DEF Counters

LEMMA PublisherHolds ==
    /\ IInv /\ Move => IInv'
    /\ IInv /\ PublisherOpens => IInv'
    /\ IInv /\ PublisherHelloAgain => IInv'
    /\ IInv /\ PublisherInput => IInv'
    /\ IInv /\ PublisherCloses => IInv'
    /\ IInv /\ PublisherRestarts => IInv'
<1> SUFFICES ASSUME IInv
             PROVE  /\ Move => IInv'
                    /\ PublisherOpens => IInv'
                    /\ PublisherHelloAgain => IInv'
                    /\ PublisherInput => IInv'
                    /\ PublisherCloses => IInv'
                    /\ PublisherRestarts => IInv'
  OBVIOUS
<1>0. TypeOK /\ UpInv /\ DownInv
  BY DEF IInv
<1>1. ASSUME Move PROVE IInv'
  <2>1. /\ pub' \in Publishers /\ pub'.run = pub.run /\ pub'.conn = pub.conn /\ pub'.joined = pub.joined
        /\ made' \in Counters /\ made'.opens = made.opens
        /\ UNCHANGED <<up, slot, greeted, down, watching, proxy>>
    <3>1. PICK l \in Looks : pub' = [pub EXCEPT !.look = l]
      BY <1>1 DEF Move
    <3>2. pub' \in Publishers /\ pub'.run = pub.run /\ pub'.conn = pub.conn /\ pub'.joined = pub.joined
      BY <1>0, <3>1 DEF TypeOK, Publishers
    <3>3. made' \in Counters /\ made'.opens = made.opens
      <4>1. made \in Counters
        BY <1>0 DEF TypeOK
      <4>2. made' = [made EXCEPT !.moves = @ + 1]
        BY <1>1 DEF Move
      <4>. QED  BY <4>1, <4>2, OneMore, Zenon
    <3>. QED  BY <1>1, <3>2, <3>3 DEF Move
  <2>. QED  BY <1>0, <2>1, DownUnchanged DEF IInv, TypeOK, UpInv, Signed
<1>2. ASSUME PublisherOpens PROVE IInv'
  <2>1. made' \in Counters /\ made'.opens = made.opens + 1
    <3>1. made \in Counters
      BY <1>0 DEF TypeOK
    <3>2. made' = [made EXCEPT !.opens = @ + 1]
      BY <1>2 DEF PublisherOpens
    <3>. QED  BY <3>1, <3>2, OneMore, Zenon
  <2>2. made.opens \in Nat /\ made'.opens \in Nat
    BY <1>0, <2>1 DEF TypeOK, Counters
  <2>3. /\ pub' \in Publishers /\ pub'.run = pub.run /\ pub'.conn = made'.opens
        /\ pub.run \in Nat /\ pub'.joined = pub.joined
    <3>1. pub' = [pub EXCEPT !.conn = made'.opens]
      BY <1>2 DEF PublisherOpens
    <3>. QED  BY <1>0, <2>2, <3>1 DEF TypeOK, Publishers
  <2>4. UNCHANGED <<slot, greeted, down, watching, proxy>> /\ ~pub.joined
    BY <1>0, <1>2 DEF PublisherOpens, UpInv
  <2> DEFINE d == [conn |-> made'.opens, body |-> HelloOf(pub)]
  <2>5. /\ d \in Upward /\ d.conn = made'.opens
        /\ d.body.kind = "hello" /\ d.body.run = pub.run
    BY <2>2, <2>3 DEF HelloOf, Upward, UpBodies
  <2>6. up' = Append(up, d)
    BY <1>2, <2>3 DEF PublisherOpens
  <2> HIDE DEF d
  <2>7. up' \in Seq(Upward) /\ Range(up') = Range(up) \cup {d}
    BY <1>0, <2>5, <2>6, RangeAppend DEF TypeOK
  <2>8. \A m \in Range(up) : m.conn <= made'.opens /\ m.conn # made'.opens
    <3>1. \A m \in Range(up) : m.conn \in Nat /\ m.conn <= made.opens
      <4>1. Range(up) \subseteq Upward
        BY <1>0, RangeOfSeq DEF TypeOK
      <4>. QED  BY <1>0, <4>1 DEF UpInv, Upward
    <3>. QED  BY <2>1, <2>2, <3>1
  <2>9. slot.conn <= made'.opens /\ slot.conn # made'.opens
    <3>1. slot.conn \in Nat /\ slot.conn <= made.opens
      BY <1>0 DEF TypeOK, Slots, UpInv
    <3>. QED  BY <2>1, <2>2, <3>1
  <2>10. Signed' = Signed \cup {d}
    BY <2>5, <2>7 DEF Signed
  <2>11. \A m \in Signed : m.conn # made'.opens
    BY <2>8 DEF Signed
  <2>12. UpInv'
    <3>1. \A m \in Range(up') :
             m.conn <= made'.opens /\ (m.body.kind = "state" => m.body.who = 1 /\ Stamped(m.body))
      BY <1>0, <2>2, <2>5, <2>7, <2>8 DEF UpInv
    <3>2. \A m \in Signed' : m.conn = pub'.conn => m.body.run = pub'.run
      BY <2>3, <2>5, <2>10, <2>11
    <3>3. \A m, n \in Signed' : m.conn = n.conn => m.body.run = n.body.run
      BY <1>0, <2>5, <2>10, <2>11 DEF UpInv
    <3>4. \A m \in Signed' : slot.connected /\ m.conn = slot.conn => m.body.run = greeted.run
      BY <1>0, <2>5, <2>9, <2>10 DEF UpInv
    <3>. QED  BY <1>0, <2>2, <2>3, <2>4, <2>9, <3>1, <3>2, <3>3, <3>4 DEF UpInv
  <2>. QED  BY <1>0, <2>1, <2>3, <2>4, <2>7, <2>12, DownUnchanged DEF IInv, TypeOK
<1>6. ASSUME PublisherHelloAgain PROVE IInv'
  <2>1. made' \in Counters /\ made'.opens = made.opens
    <3>1. made \in Counters
      BY <1>0 DEF TypeOK
    <3>2. made' = [made EXCEPT !.hellos = @ + 1]
      BY <1>6 DEF PublisherHelloAgain
    <3>. QED  BY <3>1, <3>2, OneMore, Zenon
  <2> DEFINE b == HelloOf(pub)
  <2>2. b \in UpBodies /\ b.kind = "hello" /\ b.run = pub.run
    BY <1>0 DEF HelloOf, UpBodies, TypeOK, Publishers
  <2>3. /\ pub.conn # 0 /\ UNCHANGED <<pub, slot, greeted, down, watching, proxy>>
        /\ up' = Append(up, [conn |-> pub.conn, body |-> b])
    BY <1>6 DEF PublisherHelloAgain
  <2> HIDE DEF b
  <2>4. up' \in Seq(Upward) /\ UpInv'
    BY <1>0, <2>1, <2>2, <2>3, SendHolds DEF UpInv
  <2>. QED  BY <1>0, <2>1, <2>3, <2>4, DownUnchanged DEF IInv, TypeOK
<1>3. ASSUME PublisherInput PROVE IInv'
  <2>1. PICK l \in Looks :
          up' = Append(up, [conn |-> pub.conn, body |-> [kind |-> "input", look |-> l]])
    BY <1>3 DEF PublisherInput
  <2>2. /\ made' \in Counters /\ made'.opens = made.opens
        /\ pub.joined /\ UNCHANGED <<pub, slot, greeted, down, watching, proxy>>
    <3>1. made \in Counters
      BY <1>0 DEF TypeOK
    <3>2. /\ made' = [made EXCEPT !.inputs = @ + 1]
          /\ pub.joined /\ UNCHANGED <<pub, slot, greeted, down, watching, proxy>>
      BY <1>3 DEF PublisherInput
    <3>. QED  BY <3>1, <3>2, OneMore, Zenon
  <2> DEFINE b == [kind |-> "input", look |-> l]
  <2>3. b \in UpBodies /\ b.kind = "input"
    BY DEF UpBodies
  <2> HIDE DEF b
  <2>4. up' \in Seq(Upward) /\ UpInv'
    <3>1. up' = Append(up, [conn |-> pub.conn, body |-> b])
      BY <2>1 DEF b
    <3>2. pub.conn # 0
      BY <1>0, <2>2 DEF UpInv
    <3>. QED  BY <1>0, <2>2, <2>3, <3>1, <3>2, SendHolds
  <2>. QED  BY <1>0, <2>2, <2>4, DownUnchanged DEF IInv, TypeOK
<1>4. ASSUME PublisherCloses PROVE IInv'
  <2> DEFINE b == [kind |-> "disconnect"]
  <2>1. /\ pub' \in Publishers /\ pub'.run = pub.run /\ pub'.conn = 0 /\ ~pub'.joined
        /\ pub.conn # 0 /\ UNCHANGED <<made, slot, greeted, down, watching, proxy>>
        /\ up' = Append(up, [conn |-> pub.conn, body |-> b]) \/ up' = up
    BY <1>0, <1>4 DEF PublisherCloses, TypeOK, Publishers
  <2>2. b \in UpBodies /\ b.kind = "disconnect"
    BY DEF UpBodies
  <2> HIDE DEF b
  <2>3. up' \in Seq(Upward) /\ UpInv'
    <3>1. CASE up' = up
      <4>1. made.opens \in Nat
        BY <1>0 DEF TypeOK, Counters
      <4>. QED  BY <1>0, <2>1, <3>1, <4>1 DEF UpInv, Signed, TypeOK
    <3>2. CASE up' # up
      BY <1>0, <2>1, <2>2, <3>2, SendHolds
    <3>. QED  BY <3>1, <3>2
  <2>. QED  BY <1>0, <2>1, <2>3, DownUnchanged DEF IInv, TypeOK
<1>5. ASSUME PublisherRestarts PROVE IInv'
  <2>1. /\ pub' \in Publishers /\ pub'.conn = 0 /\ ~pub'.joined
        /\ UNCHANGED <<made, up, slot, greeted, down, watching, proxy>>
    BY <1>0, <1>5 DEF PublisherRestarts, NewProcess, TypeOK, Publishers
  <2>2. made.opens \in Nat
    BY <1>0 DEF TypeOK, Counters
  <2>3. UpInv'
    BY <1>0, <2>1, <2>2 DEF UpInv, Signed
  <2>. QED  BY <1>0, <2>1, <2>3, DownUnchanged DEF IInv, TypeOK
<1>. QED  BY <1>1, <1>2, <1>3, <1>4, <1>5, <1>6

-----------------------------------------------------------------------------
(***************************************************************************)
(* The steps of service, observer and network                              *)
(***************************************************************************)

\* What no step may do, of NeverBackwards.
Forward ==
    /\ ~Older(slot'.state, slot.state)
    /\ ~greeted.late => ~OfEarlierProcess(slot'.state, slot.state)
    /\ watching /\ proxy.in_use /\ proxy'.in_use =>
          /\ ~Older(proxy', proxy)
          /\ ~greeted.late => ~OfEarlierProcess(proxy', proxy)

LEMMA NothingOlder ==
    ASSUME TypeOK, slot'.state = slot.state, proxy' = proxy
    PROVE  Forward
  BY DEF TypeOK, Slots, StateMessages, Proxies, Forward, Older, OfEarlierProcess

\* Fewer datagrams on the way up.
LEMMA UpShrinks ==
    ASSUME TypeOK, UpInv, Range(up') \subseteq Range(up), UNCHANGED <<pub, made, greeted>>,
           slot'.connected => slot.connected, slot'.conn \in {0, slot.conn},
           slot'.connected => slot'.conn = slot.conn,
           slot'.state.run = slot.state.run
    PROVE  UpInv'
<1>1. Signed' \subseteq Signed
  BY DEF Signed
<1>2. made.opens \in Nat
  BY DEF TypeOK, Counters
<1>. QED  BY <1>1, <1>2 DEF UpInv

\* A message to the observer: nothing new, or the state in the slot.
LEMMA TellHolds ==
    ASSUME TypeOK, NEW m \in Downward, Tell(m),
           NEW last, Relayed(last, Sent \cup Shown, greeted.late),
           m.kind = "state" /\ m.who = 1 => Relayed(last, (Sent \cup Shown) \cup {m}, greeted.late),
           proxy' = proxy
    PROVE  down' \in Seq(Downward) /\ Relayed(last, (Sent \cup Shown)', greeted.late)
<1>1. down' \in Seq(Downward) /\ Range(down') \subseteq Range(down) \cup {m}
  <2>1. CASE watching
    BY <2>1, RangeAppend DEF Tell, TypeOK
  <2>2. CASE ~watching
    BY <2>2 DEF Tell, TypeOK
  <2>. QED  BY <2>1, <2>2
<1>2. Shown' = Shown
  BY DEF Shown
<1>3. CASE m.kind = "state" /\ m.who = 1
  <2>1. Sent' \cup Shown' \subseteq (Sent \cup Shown) \cup {m}
    BY <1>1, <1>2 DEF Sent
  <2>. QED  BY <1>1, <1>3, <2>1, RelayedFewer
<1>4. CASE ~(m.kind = "state" /\ m.who = 1)
  <2>1. Sent' \cup Shown' \subseteq Sent \cup Shown
    BY <1>1, <1>2, <1>4 DEF Sent
  <2>. QED  BY <1>1, <2>1, RelayedFewer
<1>. QED  BY <1>3, <1>4

\* What the service accepts is newer than the state in the slot.
LEMMA AcceptedAdvances ==
    ASSUME TypeOK, DownInv, NEW m, Stamped(m), psr_evaluate(slot.stats, m)
    PROVE  LexLess(slot.state, m)
<1>1. slot.stats.seq \in Nat /\ slot.stats.tick \in Nat
  BY DEF TypeOK, Slots, Stamps
<1>2. LexLess(slot.stats, m) \/ (slot.stats.tick = 0 /\ slot.stats.seq = m.seq)
  BY <1>1, AcceptedIsNewer
<1>3. slot.state.who \in {0, 1}
  BY DEF TypeOK, Slots, StateMessages
<1>. QED  BY <1>2, <1>3 DEF DownInv, SameStamps, LexLess, Stamped

LEMMA ServiceHolds ==
    IInv /\ ServiceReceives => IInv' /\ Forward
<1> SUFFICES ASSUME IInv, ServiceReceives PROVE IInv' /\ Forward
  OBVIOUS
<1>0. TypeOK /\ UpInv /\ DownInv
  BY DEF IInv
<1>1. PICK k \in Arrivals(up) :
        /\ up' \in Taken(up, k)
        /\ \/ up[k].body.kind = "hello" /\ HandleHello(up[k])
           \/ /\ up[k].body.kind # "hello"
              /\ IF Routed(up[k])
                 THEN HandlePlayerMessage(up[k].body) ELSE UNCHANGED <<slot, down>>
              /\ UNCHANGED greeted
        /\ UNCHANGED <<pub, made, watching, proxy>>
  BY DEF ServiceReceives
<1> DEFINE d == up[k]
           m == up[k].body
<1>2. up' \in Seq(Upward) /\ Range(up') \subseteq Range(up) /\ d \in Range(up)
  BY <1>0, <1>1, TakenAddsNothing DEF TypeOK
<1>3. d \in Upward /\ m \in UpBodies
  <2>1. Range(up) \subseteq Upward
    BY <1>0, RangeOfSeq DEF TypeOK
  <2>. QED  BY <1>2, <2>1 DEF Upward
<1>9. greeted.late \in BOOLEAN /\ made.opens \in Nat
  BY <1>0 DEF TypeOK, Counters
<1>4. CASE UNCHANGED <<slot, greeted, down>>
  <2>1. UpInv'
    BY <1>0, <1>1, <1>2, <1>4, UpShrinks
  <2>2. DownInv'
    BY <1>0, <1>1, <1>4, DownUnchanged
  <2>3. TypeOK'
    BY <1>0, <1>1, <1>2, <1>4 DEF TypeOK
  <2>. QED  BY <1>0, <1>1, <1>4, <2>1, <2>2, <2>3, NothingOlder DEF IInv
<1>5. CASE Routed(d) /\ UNCHANGED greeted /\ m.kind = "state" /\ psr_evaluate(slot.stats, m)
  <2>1. slot' = [slot EXCEPT !.stats = psr_absorb(@, m), !.state = m] /\ Tell(m)
    BY <1>1, <1>5 DEF HandlePlayerMessage, HandlePlayerState
  <2>2. m \in StateMessages
    BY <1>3, <1>5 DEF UpBodies
  <2>3. d \in Signed
    BY <1>2, <1>5 DEF Signed
  <2>4. /\ m.who = 1 /\ Stamped(m) /\ m.run = greeted.run
        /\ greeted.late \/ slot.state.run <= m.run
    BY <1>0, <1>2, <1>5, <2>3 DEF UpInv, Routed
  <2> DEFINE st == psr_absorb(slot.stats, m)
  <2>5. st = [seq |-> m.seq, tick |-> m.tick]
    BY <2>4 DEF psr_absorb, Stamped
  <2>6. st \in Stamps /\ SameStamps(st, m)
    BY <2>4, <2>5 DEF Stamps, Stamped, SameStamps
  <2>7. slot' = [slot EXCEPT !.stats = st, !.state = m]
    BY <2>1
  <2> HIDE DEF st, m, d
  <2>8. /\ slot' \in Slots
        /\ slot'.connected = slot.connected /\ slot'.conn = slot.conn
        /\ slot'.stats = st /\ slot'.state = m
    BY <1>0, <2>2, <2>6, <2>7 DEF TypeOK, Slots
  <2>9. LexLess(slot.state, m)
    BY <1>0, <1>5, <2>4, AcceptedAdvances
  <2>10. Relayed(slot.state, Sent \cup Shown, greeted.late)
    BY <1>0 DEF DownInv
  <2>11. Relayed(m, Sent \cup Shown, greeted.late) /\ Relayed(m, (Sent \cup Shown) \cup {m}, greeted.late)
    BY <1>9, <2>4, <2>9, <2>10, RelayedNewer
  <2>12. down' \in Seq(Downward) /\ Relayed(m, (Sent \cup Shown)', greeted.late)
    BY <1>0, <1>1, <2>1, <2>2, <2>11, TellHolds DEF Downward
  <2>13. DownInv'
    BY <1>5, <2>4, <2>6, <2>8, <2>12 DEF DownInv, Stamped
  <2>14. UpInv'
    <3>1. Signed' \subseteq Signed
      BY <1>2 DEF Signed
    <3>2. slot'.state.run <= greeted.run
      BY <2>4, <2>8 DEF Stamped
    <3>. QED  BY <1>0, <1>1, <1>2, <1>5, <2>8, <3>1, <3>2 DEF UpInv
  <2>15. TypeOK'
    BY <1>0, <1>1, <1>2, <1>5, <2>8, <2>12 DEF TypeOK
  <2>16. Forward
    <3>1. slot.state.run \in Nat /\ slot.state.seq \in Nat /\ proxy.run \in Nat /\ proxy.seq \in Nat
      BY <1>0 DEF TypeOK, Slots, StateMessages, Proxies
    <3>. QED  BY <1>1, <2>4, <2>8, <2>9, <3>1 DEF Forward, Older, OfEarlierProcess, LexLess, Stamped
  <2>. QED  BY <2>13, <2>14, <2>15, <2>16 DEF IInv
<1>6. CASE Routed(d) /\ UNCHANGED greeted /\ m.kind = "input"
  <2>1. slot' = [slot EXCEPT !.state.look = m.look] /\ Tell(slot'.state)
    BY <1>1, <1>6 DEF HandlePlayerMessage, ac_handle_input_state
  <2>2. m.look \in Looks
    BY <1>3, <1>6 DEF UpBodies, StateMessages
  <2> DEFINE x == [slot.state EXCEPT !.look = m.look]
  <2>3. slot' = [slot EXCEPT !.state = x]
    BY <1>0, <2>1 DEF TypeOK, Slots
  <2>4. /\ x \in StateMessages /\ x.who = slot.state.who /\ x.run = slot.state.run
        /\ SameStamps(x, slot.state)
    <3> HIDE DEF m
    <3>1. slot.state \in StateMessages
      BY <1>0 DEF TypeOK, Slots
    <3>. QED  BY <2>2, <3>1 DEF StateMessages, SameStamps
  <2> HIDE DEF x, m, d
  <2>5. /\ slot' \in Slots
        /\ slot'.connected = slot.connected /\ slot'.conn = slot.conn
        /\ slot'.stats = slot.stats /\ slot'.state = x
    BY <1>0, <2>3, <2>4 DEF TypeOK, Slots
  <2>6. Relayed(slot.state, Sent \cup Shown, greeted.late)
    BY <1>0 DEF DownInv
  <2>7. x.who = 1 => Relayed(slot.state, (Sent \cup Shown) \cup {x}, greeted.late)
    BY <1>0, <1>9, <2>4, <2>6, RelayedAgain DEF DownInv
  <2>8. Tell(x)
    BY <2>1, <2>5
  <2>9. down' \in Seq(Downward) /\ Relayed(slot.state, (Sent \cup Shown)', greeted.late)
    BY <1>0, <1>1, <2>4, <2>6, <2>7, <2>8, TellHolds DEF Downward
  <2>10. Relayed(x, (Sent \cup Shown)', greeted.late)
    BY <2>4, <2>9 DEF Relayed, SameStamps, LexLess, InStep
  <2>11. DownInv'
    BY <1>0, <1>6, <2>4, <2>5, <2>10 DEF DownInv, SameStamps
  <2>12. UpInv'
    BY <1>0, <1>1, <1>2, <1>6, <2>4, <2>5, UpShrinks
  <2>13. TypeOK'
    BY <1>0, <1>1, <1>2, <1>6, <2>5, <2>9 DEF TypeOK
  <2>14. Forward
    <3>1. slot.state.run \in Nat /\ slot.state.seq \in Nat /\ proxy.run \in Nat /\ proxy.seq \in Nat
      BY <1>0 DEF TypeOK, Slots, StateMessages, Proxies
    <3>. QED  BY <1>1, <2>4, <2>5, <3>1 DEF Forward, Older, OfEarlierProcess, SameStamps
  <2>. QED  BY <2>11, <2>12, <2>13, <2>14 DEF IInv
<1>7. CASE Routed(d) /\ UNCHANGED greeted /\ m.kind = "disconnect"
  <2>1. slot' = [slot EXCEPT !.connected = FALSE, !.conn = 0] /\ Tell(Left)
    BY <1>1, <1>7 DEF HandlePlayerMessage, HandleDisconnect
  <2>2. /\ slot' \in Slots /\ slot'.conn = 0
        /\ slot'.connected = FALSE /\ slot'.stats = slot.stats /\ slot'.state = slot.state
    BY <1>0, <2>1 DEF TypeOK, Slots
  <2>3. Relayed(slot.state, Sent \cup Shown, greeted.late) /\ Left \in Downward /\ Left.kind # "state"
    BY <1>0 DEF DownInv, Downward, Left
  <2>4. down' \in Seq(Downward) /\ Relayed(slot.state, (Sent \cup Shown)', greeted.late)
    BY <1>0, <1>1, <2>1, <2>3, TellHolds
  <2>5. DownInv'
    BY <1>0, <1>7, <2>2, <2>4 DEF DownInv
  <2>6. UpInv'
    BY <1>0, <1>1, <1>2, <1>7, <2>2, UpShrinks
  <2>7. TypeOK'
    BY <1>0, <1>1, <1>2, <1>7, <2>2, <2>4 DEF TypeOK
  <2>. QED  BY <1>0, <1>1, <2>2, <2>5, <2>6, <2>7, NothingOlder DEF IInv
<1>8. CASE m.kind = "hello"
  <2> DEFINE later == greeted.late \/ m.run < greeted.run
  <2>1. /\ slot' = [slot EXCEPT !.connected = TRUE, !.conn = d.conn] /\ down' = down
        /\ greeted' = [conns |-> greeted.conns \cup {d.conn}, run |-> m.run, late |-> later]
    BY <1>1, <1>8 DEF HandleHello
  <2>2. d.conn \in Nat /\ m.run \in Nat /\ d \in Signed
    BY <1>2, <1>3, <1>8 DEF Upward, UpBodies, StateMessages, Signed
  <2>3. later \in BOOLEAN /\ (greeted.late => later) /\ (~later => greeted.run <= m.run)
    BY <1>0, <2>2 DEF TypeOK
  <2>4. m = d.body
    OBVIOUS
  <2> HIDE DEF later, m, d
  <2>5. /\ slot' \in Slots /\ slot'.connected /\ slot'.conn = d.conn
        /\ slot'.stats = slot.stats /\ slot'.state = slot.state
    BY <1>0, <2>1, <2>2 DEF TypeOK, Slots
  <2>6. /\ greeted' \in [conns : SUBSET Nat, run : Nat, late : BOOLEAN]
        /\ greeted'.run = m.run /\ greeted'.late = later
    BY <1>0, <2>1, <2>2, <2>3 DEF TypeOK
  <2>7. TypeOK'
    BY <1>0, <1>1, <1>2, <2>1, <2>5, <2>6 DEF TypeOK
  <2>8. DownInv'
    <3>1. Relayed(slot.state, Sent \cup Shown, later)
      BY <1>0, <1>9, <2>3, RelayedLate DEF DownInv
    <3>2. (Sent \cup Shown)' = Sent \cup Shown
      BY <1>1, <2>1 DEF Sent, Shown
    <3>. QED  BY <1>0, <2>5, <2>6, <3>1, <3>2 DEF DownInv
  <2>9. UpInv'
    <3>1. Signed' \subseteq Signed
      BY <1>2 DEF Signed
    <3>2. greeted'.late \/ slot'.state.run <= greeted'.run
      <4>1. greeted.run \in Nat /\ slot.state.run \in Nat
        BY <1>0 DEF TypeOK, Slots, StateMessages
      <4>. QED  BY <1>0, <2>2, <2>3, <2>5, <2>6, <4>1 DEF UpInv
    <3>3. d.conn <= made.opens
      BY <1>0, <1>2 DEF UpInv
    <3>4. \A n \in Signed' : n.conn = slot'.conn => n.body.run = greeted'.run
      BY <1>0, <2>2, <2>4, <2>5, <2>6, <3>1 DEF UpInv
    <3>5. pub.conn # 0 /\ pub.conn = slot'.conn => pub.run = greeted'.run
      BY <1>0, <2>2, <2>4, <2>5, <2>6 DEF UpInv
    <3>. QED  BY <1>0, <1>1, <1>2, <2>5, <3>1, <3>2, <3>3, <3>4, <3>5 DEF UpInv
  <2>. QED  BY <1>0, <1>1, <2>5, <2>7, <2>8, <2>9, NothingOlder DEF IInv
<1>10. \/ m.kind = "hello"
       \/ UNCHANGED <<slot, greeted, down>>
       \/ /\ Routed(d) /\ UNCHANGED greeted
          /\ \/ m.kind = "state" /\ psr_evaluate(slot.stats, m)
             \/ m.kind = "input" \/ m.kind = "disconnect"
  <2>1. m.kind \in {"hello", "state", "input", "disconnect"}
    BY <1>3 DEF UpBodies, StateMessages
  <2>2. Routed(d) /\ m.kind = "state" => HandlePlayerState(m)
    BY <1>1 DEF HandlePlayerMessage
  <2>3. m.kind # "hello" => UNCHANGED greeted /\ (~Routed(d) => UNCHANGED <<slot, down>>)
    BY <1>1
  <2>. QED  BY <2>1, <2>2, <2>3 DEF HandlePlayerState
<1>. QED  BY <1>4, <1>5, <1>6, <1>7, <1>8, <1>10

\* Steps that leave the publisher's side alone.
LEMMA UpUnchanged ==
    ASSUME UpInv, UNCHANGED <<pub, made, up, slot, greeted>>
    PROVE  UpInv'
  BY DEF UpInv, Signed

LEMMA ReplayHolds ==
    ASSUME TypeOK, DownInv
    PROVE  /\ Replay \in Seq(Downward)
           /\ \A m \in Range(Replay) : m = slot.state
<1>1. slot.state \in Downward
  BY DEF TypeOK, Slots, Downward
<1>2. CASE slot.connected
  BY <1>1, <1>2 DEF Replay, Range
<1>3. CASE ~slot.connected
  BY <1>3, EmptySeq DEF Replay, Range
<1>. QED  BY <1>2, <1>3

\* The replay, behind what is in flight, to a proxy that is kept or emptied.
LEMMA ReplayedHolds ==
    ASSUME TypeOK, DownInv, NEW before \in Seq(Downward), Range(before) \subseteq Range(down),
           down' = before \o Replay, UNCHANGED <<slot, greeted>>, Shown' \subseteq Shown
    PROVE  down' \in Seq(Downward) /\ DownInv'
<1>1. down' \in Seq(Downward) /\ Range(down') \subseteq Range(down) \cup {slot.state}
  BY ReplayHolds, RangeConcat
<1>2. Relayed(slot.state, Sent \cup Shown, greeted.late)
  BY DEF DownInv
<1>3. CASE slot.state.who = 1
  <2>1. Relayed(slot.state, (Sent \cup Shown) \cup {slot.state}, greeted.late)
    <3>1. greeted.late \in BOOLEAN
      BY DEF TypeOK
    <3>2. slot.state.seq # 0 /\ slot.state.tick # 0 /\ SameStamps(slot.state, slot.state)
      BY <1>3 DEF DownInv, SameStamps
    <3> DEFINE st == slot.state
               K == Sent \cup Shown
               late == greeted.late
    <3>3. /\ Relayed(st, K, late) /\ late \in BOOLEAN
          /\ SameStamps(st, st) /\ st.seq # 0 /\ st.tick # 0
      BY <1>2, <3>1, <3>2
    <3> HIDE DEF st, K, late
    <3>4. Relayed(st, K \cup {st}, late)
      BY <3>3, RelayedAgain
    <3>. QED  BY <3>4 DEF st, K, late
  <2>2. (Sent \cup Shown)' \subseteq (Sent \cup Shown) \cup {slot.state}
    BY <1>1 DEF Sent
  <2>3. Relayed(slot.state, (Sent \cup Shown)', greeted.late)
    BY <2>1, <2>2, RelayedFewer
  <2>. QED  BY <1>1, <2>3 DEF DownInv
<1>4. CASE slot.state.who # 1
  <2>1. (Sent \cup Shown)' \subseteq Sent \cup Shown
    BY <1>1, <1>4 DEF Sent
  <2>2. Relayed(slot.state, (Sent \cup Shown)', greeted.late)
    BY <1>2, <2>1, RelayedFewer
  <2>. QED  BY <1>1, <2>2 DEF DownInv
<1>. QED  BY <1>3, <1>4

\* The filter of the observer: what is shown is the state that arrived, newer
\* than the one before it, or what was shown already.
LEMMA ApplyHolds ==
    ASSUME TypeOK, DownInv, NEW m \in Range(down), proxy' = Apply(proxy, m)
    PROVE  /\ proxy' \in Proxies
           /\ \/ proxy' = proxy
              \/ ~proxy'.in_use
              \/ /\ m \in Sent /\ proxy'.in_use
                 /\ SameStamps(proxy', m) /\ proxy'.run = m.run
                 /\ proxy.in_use => LexLess(proxy, m)
<1>0. m \in Downward /\ (CHOOSE l \in Looks : TRUE) \in Looks /\ proxy \in Proxies
  BY RangeOfSeq, PathAssumption DEF TypeOK
<1>1. CASE m.kind = "left"
  <2>1. proxy' = NoProxy
    BY <1>1 DEF Apply
  <2> DEFINE c == CHOOSE l \in Looks : TRUE
  <2>2. NoProxy = [in_use |-> FALSE, seq |-> 0, tick |-> 0, look |-> c, run |-> 0] /\ c \in Looks
    BY <1>0 DEF NoProxy
  <2> HIDE DEF c
  <2>. QED  BY <2>1, <2>2 DEF Proxies
<1>2. CASE m.kind # "left"
  <2>1. m \in StateMessages /\ m.kind = "state"
    BY <1>0, <1>2 DEF Downward, Left, StateMessages
  <2>2. proxy' = rpm_apply_remote_player_state(proxy, m)
    BY <1>2 DEF Apply
  <2>3. CASE m.who = 0
    BY <1>0, <2>2, <2>3 DEF rpm_apply_remote_player_state
  <2>4. CASE m.who # 0
    <3> DEFINE cur == IF proxy.in_use THEN proxy ELSE proxy_spawn_player(m)
               new == [in_use |-> TRUE, seq |-> m.seq, tick |-> m.tick, look |-> m.look,
                       run |-> m.run]
    <3>1. m.who = 1 /\ m \in Sent
      BY <2>1, <2>4 DEF StateMessages, Sent
    <3>2. Stamped(m)
      BY <3>1 DEF DownInv, Relayed
    <3>3. proxy' = IF Stale(cur, m) THEN cur ELSE new
      BY <2>2, <2>4 DEF rpm_apply_remote_player_state
    <3>4. new \in Proxies /\ new.in_use /\ SameStamps(new, m) /\ new.run = m.run
      BY <2>1 DEF Proxies, StateMessages, SameStamps
    <3>5. CASE proxy.in_use
      <4>1. Stamped(proxy)
        BY <3>5 DEF DownInv, Relayed, Shown
      <4>2. Stale(proxy, m) \/ LexLess(proxy, m)
        BY <3>2, <4>1 DEF Stale, LexLess, Stamped
      <4> HIDE DEF new
      <4>. QED  BY <1>0, <3>1, <3>3, <3>4, <3>5, <4>2
    <3>6. CASE ~proxy.in_use
      <4>1. ~Stale(cur, m)
        BY <3>2, <3>6 DEF Stale, proxy_spawn_player, Stamped
      <4> HIDE DEF new, cur
      <4>. QED  BY <3>1, <3>3, <3>4, <3>6, <4>1
    <3>. QED  BY <3>5, <3>6
  <2>. QED  BY <2>3, <2>4
<1>. QED  BY <1>1, <1>2

LEMMA ObserverHolds ==
    ASSUME IInv, ObserverStarts \/ ObserverHelloAgain \/ ObserverCloses \/ ObserverReceives \/ Lose
    PROVE  IInv' /\ Forward
<1>0. TypeOK /\ UpInv /\ DownInv
  BY DEF IInv
<1>1. CASE ObserverStarts
  <2>1. watching' = TRUE /\ proxy' = NoProxy /\ down' = Replay /\ UNCHANGED <<pub, made, up, slot, greeted>>
    BY <1>1 DEF ObserverStarts
  <2>2. Shown' = {} /\ ~proxy'.in_use
    BY <2>1 DEF Shown, NoProxy
  <2>3. down' \in Seq(Downward) /\ DownInv'
    <3>1. Replay \in Seq(Downward)
      BY <1>0, ReplayHolds
    <3>2. <<>> \in Seq(Downward) /\ <<>> \o Replay = Replay
      BY <3>1, EmptySeq, ConcatEmptySeq
    <3>3. Range(<<>>) \subseteq Range(down)
      BY DEF Range
    <3>. QED  BY <1>0, <2>1, <2>2, <3>2, <3>3, ReplayedHolds
  <2>4. proxy' \in Proxies
    <3> DEFINE c == CHOOSE l \in Looks : TRUE
    <3>1. /\ NoProxy = [in_use |-> FALSE, seq |-> 0, tick |-> 0, look |-> c, run |-> 0]
          /\ c \in Looks
      BY PathAssumption DEF NoProxy
    <3> HIDE DEF c
    <3>. QED  BY <2>1, <3>1 DEF Proxies
  <2>5. Forward
    BY <1>0, <2>1, <2>2 DEF Forward, Older, OfEarlierProcess, TypeOK, Slots, StateMessages
  <2>. QED  BY <1>0, <2>1, <2>3, <2>4, <2>5, UpUnchanged DEF IInv, TypeOK
<1>2. CASE ObserverHelloAgain
  <2>1. down' = down \o Replay /\ UNCHANGED <<pub, made, up, slot, greeted, watching, proxy>>
    BY <1>2 DEF ObserverHelloAgain
  <2>2. down' \in Seq(Downward) /\ DownInv'
    BY <1>0, <2>1, ReplayedHolds DEF TypeOK, Shown
  <2>. QED  BY <1>0, <2>1, <2>2, UpUnchanged, NothingOlder DEF IInv, TypeOK
<1>3. CASE ObserverCloses
  <2>1. watching' = FALSE /\ down' = <<>> /\ UNCHANGED <<pub, made, up, slot, greeted, proxy>>
    BY <1>3 DEF ObserverCloses
  <2>2. (Sent \cup Shown)' \subseteq Sent \cup Shown
    BY <2>1 DEF Sent, Shown, Range
  <2>3. Relayed(slot.state, (Sent \cup Shown)', greeted.late)
    BY <1>0, <2>2, RelayedFewer DEF DownInv
  <2>4. DownInv'
    BY <1>0, <2>1, <2>3 DEF DownInv
  <2>5. down' \in Seq(Downward)
    BY <2>1, EmptySeq
  <2>. QED  BY <1>0, <2>1, <2>4, <2>5, UpUnchanged, NothingOlder DEF IInv, TypeOK
<1>4. CASE ObserverReceives
  <2>1. PICK k \in Arrivals(down) : proxy' = Apply(proxy, down[k]) /\ down' \in Taken(down, k)
    BY <1>4 DEF ObserverReceives
  <2>2. UNCHANGED <<pub, made, up, slot, greeted, watching>>
    BY <1>4 DEF ObserverReceives
  <2> DEFINE m == down[k]
  <2>3. down' \in Seq(Downward) /\ Range(down') \subseteq Range(down) /\ m \in Range(down)
    BY <1>0, <2>1, TakenAddsNothing DEF TypeOK
  <2> HIDE DEF m
  <2>4. /\ proxy' \in Proxies
        /\ \/ proxy' = proxy
           \/ ~proxy'.in_use
           \/ /\ m \in Sent /\ proxy'.in_use
              /\ SameStamps(proxy', m) /\ proxy'.run = m.run
              /\ proxy.in_use => LexLess(proxy, m)
    BY <1>0, <2>1, <2>3, ApplyHolds DEF m
  <2>5. Sent' \subseteq Sent
    BY <2>3 DEF Sent
  <2>6. Relayed(slot.state, Sent \cup Shown, greeted.late)
    BY <1>0 DEF DownInv
  <2>7. Relayed(slot.state, (Sent \cup Shown)', greeted.late) /\ Forward
    <3>1. CASE proxy' = proxy
      <4>1. (Sent \cup Shown)' \subseteq Sent \cup Shown
        BY <2>5, <3>1 DEF Shown
      <4>. QED  BY <1>0, <2>2, <2>6, <3>1, <4>1, RelayedFewer, NothingOlder
    <3>2. CASE ~proxy'.in_use
      <4>1. (Sent \cup Shown)' \subseteq Sent \cup Shown
        BY <2>5, <3>2 DEF Shown
      <4>2. Forward
        BY <1>0, <2>2, <3>2 DEF Forward, Older, OfEarlierProcess, TypeOK, Slots, StateMessages
      <4>. QED  BY <2>6, <4>1, <4>2, RelayedFewer
    <3>3. CASE /\ m \in Sent /\ proxy'.in_use
               /\ SameStamps(proxy', m) /\ proxy'.run = m.run
               /\ proxy.in_use => LexLess(proxy, m)
      <4>1. Relayed(slot.state, (Sent \cup Shown) \cup {proxy'}, greeted.late)
        BY <1>0, <2>6, <3>3, RelayedCopy DEF TypeOK
      <4>2. (Sent \cup Shown)' \subseteq (Sent \cup Shown) \cup {proxy'}
        BY <2>5 DEF Shown
      <4>3. Relayed(slot.state, (Sent \cup Shown)', greeted.late)
        BY <4>1, <4>2, RelayedFewer
      <4>4. proxy.in_use => Stamped(proxy) /\ Stamped(m) /\ (greeted.late \/ InStep(proxy, m))
        BY <2>6, <3>3 DEF Relayed, Shown
      <4>5. proxy.in_use => /\ ~Older(proxy', proxy)
                            /\ greeted.late \/ ~OfEarlierProcess(proxy', proxy)
        BY <3>3, <4>4 DEF Older, OfEarlierProcess, Stamped, InStep, LexLess, SameStamps
      <4>6. ~Older(slot'.state, slot.state) /\ ~OfEarlierProcess(slot'.state, slot.state)
        BY <1>0, <2>2 DEF Older, OfEarlierProcess, TypeOK, Slots, StateMessages
      <4>. QED  BY <4>3, <4>5, <4>6 DEF Forward
    <3>. QED  BY <2>4, <3>1, <3>2, <3>3
  <2>8. DownInv'
    BY <1>0, <2>2, <2>7 DEF DownInv
  <2>. QED  BY <1>0, <2>2, <2>3, <2>4, <2>7, <2>8, UpUnchanged DEF IInv, TypeOK
<1>5. CASE Lose
  <2>1. UNCHANGED <<pub, made, slot, greeted, watching, proxy>>
    BY <1>5 DEF Lose
  <2>2. /\ up' \in Seq(Upward) /\ Range(up') \subseteq Range(up)
        /\ down' \in Seq(Downward) /\ Range(down') \subseteq Range(down)
    BY <1>0, <1>5, RangeRemoveAt DEF Lose, TypeOK
  <2>3. (Sent \cup Shown)' \subseteq Sent \cup Shown
    BY <2>1, <2>2 DEF Sent, Shown
  <2>4. Relayed(slot.state, (Sent \cup Shown)', greeted.late)
    BY <1>0, <2>3, RelayedFewer DEF DownInv
  <2>5. DownInv'
    BY <1>0, <2>1, <2>4 DEF DownInv
  <2>6. UpInv'
    BY <1>0, <2>1, <2>2, UpShrinks
  <2>. QED  BY <1>0, <2>1, <2>2, <2>5, <2>6, NothingOlder DEF IInv, TypeOK
<1>. QED  BY <1>1, <1>2, <1>3, <1>4, <1>5

-----------------------------------------------------------------------------
(***************************************************************************)
(* Theorems                                                                *)
(***************************************************************************)

LEMMA StepHolds ==
    IInv /\ [Next]_vars => IInv' /\ [Forward]_vars
<1> SUFFICES ASSUME IInv, [Next]_vars PROVE IInv' /\ [Forward]_vars
  OBVIOUS
<1>0. TypeOK /\ UpInv /\ DownInv
  BY DEF IInv
<1>1. CASE Move \/ PublisherOpens \/ PublisherHelloAgain \/ PublisherTicks \/ PublisherInput
           \/ PublisherCloses \/ PublisherRestarts
  <2>1. IInv'
    BY <1>1, PublisherHolds, PublisherTicksHolds
  <2>2. slot'.state = slot.state /\ proxy' = proxy
    BY <1>0, <1>1 DEF Move, PublisherOpens, PublisherHelloAgain, PublisherTicks, PublisherInput,
                      PublisherCloses, PublisherRestarts, TypeOK
  <2>. QED  BY <1>0, <2>1, <2>2, NothingOlder
<1>2. CASE ServiceReceives
  BY <1>2, ServiceHolds
<1>3. CASE ObserverStarts \/ ObserverHelloAgain \/ ObserverCloses \/ ObserverReceives \/ Lose
  BY <1>3, ObserverHolds
<1>4. CASE UNCHANGED vars
  <2>1. UNCHANGED <<pub, made, up, slot, greeted, down, watching, proxy>>
    BY <1>4 DEF vars
  <2>. QED  BY <1>0, <2>1, UpUnchanged, DownUnchanged, NothingOlder DEF IInv, TypeOK
<1>. QED  BY <1>1, <1>2, <1>3, <1>4 DEF Next

\* The invariant is inductive.
THEOREM Invariance ==
    Spec => []IInv
  BY InitHolds, StepHolds, PTL DEF Spec

\* Whatever the network loses, duplicates and reorders, HELLOs included, and
\* however often publisher and observer reconnect or start again, psr_evaluate
\* and rpm_apply_remote_player_state together let neither the slot nor a proxy go
\* back within a process; and tl_find_player_by_connection lets them go back to
\* an earlier process only after a HELLO of an earlier process came late.
THEOREM MovementNeverGoesBack ==
    Spec => NeverBackwards
<1>1. IInv /\ [Next]_vars => [Forward]_vars
  BY StepHolds
<1>2. [Forward]_vars
        => [/\ ~Older(slot'.state, slot.state)
            /\ ~greeted.late => ~OfEarlierProcess(slot'.state, slot.state)
            /\ watching /\ proxy.in_use /\ proxy'.in_use =>
                  /\ ~Older(proxy', proxy)
                  /\ ~greeted.late => ~OfEarlierProcess(proxy', proxy)]_vars
  BY DEF Forward
<1>. QED  BY <1>1, <1>2, Invariance, PTL DEF Spec, NeverBackwards

-----------------------------------------------------------------------------
(***************************************************************************)
(* A network that keeps order                                              *)
(***************************************************************************)

LEMMA ApplyTyped ==
    \A x \in Proxies, m \in Downward : Apply(x, m) \in Proxies
<1> SUFFICES ASSUME NEW x \in Proxies, NEW m \in Downward  PROVE Apply(x, m) \in Proxies
  OBVIOUS
<1> DEFINE c == CHOOSE l \in Looks : TRUE
<1>1. NoProxy = [in_use |-> FALSE, seq |-> 0, tick |-> 0, look |-> c, run |-> 0] /\ c \in Looks
  BY PathAssumption DEF NoProxy
<1> HIDE DEF c
<1>2. CASE m.kind = "left"
  BY <1>1, <1>2 DEF Apply, Proxies
<1>3. CASE m.kind # "left"
  <2>1. m \in StateMessages
    BY <1>3 DEF Downward, Left
  <2>2. proxy_spawn_player(m) \in Proxies
    BY <2>1 DEF proxy_spawn_player, Proxies, StateMessages
  <2>3. [in_use |-> TRUE, seq |-> m.seq, tick |-> m.tick, look |-> m.look, run |-> m.run] \in Proxies
    BY <2>1 DEF Proxies, StateMessages
  <2>. QED  BY <1>3, <2>2, <2>3 DEF Apply, rpm_apply_remote_player_state
<1>. QED  BY <1>2, <1>3

\* The channel's datagrams applied one after the other, as in Settled.
ApplyAll(b, w) == FoldLeft(Apply, b, w)

LEMMA ApplyFoldTrace ==
    ASSUME NEW b \in Proxies, NEW w \in Seq(Downward)
    PROVE  FoldsTo(Proxies, [x \in Proxies \X Downward |-> Apply(x[1], x[2])], b, w, FoldLeft(Apply, b, w))
<1> DEFINE F == [x \in Proxies \X Downward |-> Apply(x[1], x[2])]
           S == SUBSET (1 .. Len(w))
           iter == CHOOSE it : it = [s \in S |-> IF s = {} THEN b
                                                  ELSE Apply(it[s \ {Max(s)}], w[Max(s)])]
<1>0. Len(w) \in Nat
  OBVIOUS
<1>1. /\ F \in [Proxies \X Downward -> Proxies]
      /\ \A a \in Proxies, m \in Downward : F[<<a, m>>] = Apply(a, m)
  BY ApplyTyped
<1>2. FoldLeft(Apply, b, w) = iter[1 .. Len(w)]
  <2>1. DOMAIN w = 1 .. Len(w)
    OBVIOUS
  <2>. QED  BY <2>1 DEF FoldLeft, MapThenFoldSet
<1>3. PICK g \in [S -> Proxies] : FoldsOver(F, b, w, Len(w), g)
  <2> HIDE DEF F
  <2>. QED  BY <1>1, FoldFunctionExists
<1>4. g = [s \in S |-> IF s = {} THEN b ELSE Apply(g[s \ {Max(s)}], w[Max(s)])]
  <2>1. ASSUME NEW s \in S, s # {}
        PROVE  F[<<g[s \ {Max(s)}], w[Max(s)]>>] = Apply(g[s \ {Max(s)}], w[Max(s)])
    <3> DEFINE x == Max(s)
    <3>1. x \in s
      BY <1>0, <2>1, MaxIsIn
    <3> HIDE DEF x, F
    <3>2. s \ {x} \in S /\ x \in 1 .. Len(w)
      BY <3>1
    <3> HIDE DEF S
    <3>3. g[s \ {x}] \in Proxies
      BY <1>3, <3>2
    <3>4. w[x] \in Downward
      BY <3>2, ElementOfSeq
    <3>. QED  BY <1>1, <3>3, <3>4 DEF x
  <2>2. g = [s \in S |-> IF s = {} THEN b ELSE F[<<g[s \ {Max(s)}], w[Max(s)]>>]]
    BY <1>3 DEF FoldsOver
  <2> HIDE DEF F
  <2>. QED  BY <2>1, <2>2
<1>5. iter = [s \in S |-> IF s = {} THEN b ELSE Apply(iter[s \ {Max(s)}], w[Max(s)])]
  BY <1>4
<1> HIDE DEF iter
<1>6. iter[{}] = b
  BY <1>5
<1>7. ASSUME NEW s \in S, s # {}, iter[s \ {Max(s)}] \in Proxies
      PROVE  iter[s] = F[<<iter[s \ {Max(s)}], w[Max(s)]>>]
  <2>1. w[Max(s)] \in Downward
    <3>1. Max(s) \in s
      BY <1>0, <1>7, MaxIsIn
    <3>2. Max(s) \in 1 .. Len(w)
      BY <3>1
    <3>. QED  BY <3>2, ElementOfSeq
  <2>2. iter[s] = Apply(iter[s \ {Max(s)}], w[Max(s)])
    BY <1>5, <1>7
  <2> HIDE DEF F
  <2>. QED  BY <1>1, <1>7, <2>1, <2>2
<1>8. FoldsTo(Proxies, F, b, w, iter[1 .. Len(w)])
  <2> HIDE DEF F
  <2>1. StepsBy(Proxies, F, b, w, iter)
    BY <1>6, <1>7 DEF StepsBy
  <2>2. F \in [Proxies \X Downward -> Proxies]
    BY <1>1
  <2>. QED  BY <2>1, <2>2, FoldSteps
<1>. QED  BY <1>2, <1>8

\* FoldLeft of Apply, one element at a time from either end.
LEMMA ApplyFold ==
    ASSUME NEW b \in Proxies, NEW w \in Seq(Downward)
    PROVE  /\ ApplyAll(b, <<>>) = b
           /\ ApplyAll(b, w) \in Proxies
           /\ \A m \in Downward : ApplyAll(b, Append(w, m)) = Apply(ApplyAll(b, w), m)
           /\ w # <<>> => ApplyAll(Apply(b, w[1]), Tail(w)) = ApplyAll(b, w)
<1> DEFINE F == [x \in Proxies \X Downward |-> Apply(x[1], x[2])]
<1>1. \A a \in Proxies, m \in Downward : F[<<a, m>>] = Apply(a, m)
  BY ApplyTyped
<1>2. \A c \in Proxies, u \in Seq(Downward) : FoldsTo(Proxies, F, c, u, ApplyAll(c, u))
  BY ApplyFoldTrace DEF ApplyAll
<1> HIDE DEF F
<1>3. ApplyAll(b, <<>>) = b
  <2>1. <<>> \in Seq(Downward)
    BY EmptySeq
  <2>2. FoldsTo(Proxies, F, b, <<>>, ApplyAll(b, <<>>))
    BY <1>2, <2>1
  <2>. QED  BY <2>2, FoldsToOfEmpty
<1>4. FoldsTo(Proxies, F, b, w, ApplyAll(b, w)) /\ ApplyAll(b, w) \in Proxies
  <2>1. FoldsTo(Proxies, F, b, w, ApplyAll(b, w))
    BY <1>2
  <2>. QED  BY <2>1, FoldsToIsIn
<1>5. ASSUME NEW m \in Downward  PROVE ApplyAll(b, Append(w, m)) = Apply(ApplyAll(b, w), m)
  <2>1. Append(w, m) \in Seq(Downward)
    OBVIOUS
  <2>2. FoldsTo(Proxies, F, b, Append(w, m), ApplyAll(b, Append(w, m)))
    BY <1>2, <2>1
  <2>3. ApplyAll(b, Append(w, m)) = F[<<ApplyAll(b, w), m>>]
    BY <1>4, <2>2, FoldsToAppend
  <2>. QED  BY <1>1, <1>4, <2>3
<1>6. ASSUME w # <<>>  PROVE ApplyAll(Apply(b, w[1]), Tail(w)) = ApplyAll(b, w)
  <2>1. Tail(w) \in Seq(Downward) /\ w[1] \in Downward
    BY <1>6
  <2>2. Apply(b, w[1]) \in Proxies /\ F[<<b, w[1]>>] = Apply(b, w[1])
    BY <1>1, <2>1, ApplyTyped
  <2>3. FoldsTo(Proxies, F, Apply(b, w[1]), Tail(w), ApplyAll(Apply(b, w[1]), Tail(w)))
    BY <1>2, <2>1, <2>2
  <2>4. StartsWith(F, b, w, Apply(b, w[1]))
    BY <1>6, <2>2 DEF StartsWith
  <2>. QED  BY <1>4, <2>3, <2>4, FoldsToTail
<1>. QED  BY <1>3, <1>4, <1>5, <1>6

Ordered == Window = 1 /\ ~Unreliable

\* x shows state m.
Shows(x, m) ==
    x.run = m.run /\ x.seq = m.seq /\ x.tick = m.tick /\ x.look = m.look

\* Nobody who has left will be shown; and unless an input changed the state in
\* the slot without a new stamp, that state will be shown.
SettledInv ==
    /\ MaxInputs = 0 => \A m \in Range(up) : m.body.kind # "input"
    /\ watching /\ Settled.in_use => slot.connected
    /\ watching /\ Settled.in_use /\ MaxInputs = 0
         => slot.state.who = 1 /\ Shows(Settled, slot.state)

\* A newer state is shown, whatever was shown before.
LEMMA NewerIsShown ==
    ASSUME NEW x \in Proxies, NEW m \in StateMessages, m.who = 1, Stamped(m),
           x.in_use => LexLess(x, m)
    PROVE  Apply(x, m).in_use /\ Shows(Apply(x, m), m)
<1> DEFINE new == [in_use |-> TRUE, seq |-> m.seq, tick |-> m.tick, look |-> m.look, run |-> m.run]
<1>1. m.kind # "left"
  BY DEF StateMessages
<1>2. CASE x.in_use
  <2>1. ~Stale(x, m)
    BY <1>2 DEF Stale, LexLess, Stamped, Proxies
  <2>. QED  BY <1>1, <1>2, <2>1 DEF Apply, rpm_apply_remote_player_state, Shows
<1>3. CASE ~x.in_use
  <2>1. ~Stale(proxy_spawn_player(m), m)
    BY DEF Stale, proxy_spawn_player, Stamped
  <2>. QED  BY <1>1, <1>3, <2>1 DEF Apply, rpm_apply_remote_player_state, Shows
<1>. QED  BY <1>2, <1>3

\* The state that is shown already changes nothing.
LEMMA SameIsShown ==
    ASSUME NEW x \in Proxies, NEW m \in StateMessages, m.who = 1, Stamped(m),
           x.in_use, Shows(x, m)
    PROVE  Apply(x, m) = x
<1>1. m.kind # "left"
  BY DEF StateMessages
<1>2. Stale(x, m)
  BY DEF Stale, Shows, Stamped
<1>. QED  BY <1>1, <1>2 DEF Apply, rpm_apply_remote_player_state

\* A channel that gets one more datagram, or hands over its first one.
LEMMA SettledSteps ==
    ASSUME TypeOK
    PROVE  /\ Settled \in Proxies
           /\ \A m \in Downward :
                 down' = Append(down, m) /\ proxy' = proxy => Settled' = Apply(Settled, m)
           /\ down # <<>> /\ down' = Tail(down) /\ proxy' = Apply(proxy, down[1])
                 => Settled' = Settled
           /\ proxy' \in Proxies /\ down' = <<>> => Settled' = proxy'
           /\ down = <<>> => Settled = proxy
<1>0. proxy \in Proxies /\ down \in Seq(Downward)
  BY DEF TypeOK
<1>1. /\ ApplyAll(proxy, <<>>) = proxy
      /\ ApplyAll(proxy, down) \in Proxies
      /\ \A m \in Downward : ApplyAll(proxy, Append(down, m)) = Apply(ApplyAll(proxy, down), m)
      /\ down # <<>> => ApplyAll(Apply(proxy, down[1]), Tail(down)) = ApplyAll(proxy, down)
  BY <1>0, ApplyFold
<1>2. Settled = ApplyAll(proxy, down) /\ Settled' = ApplyAll(proxy', down')
  BY DEF Settled, ApplyAll
<1>3. proxy' \in Proxies => ApplyAll(proxy', <<>>) = proxy'
  <2>1. <<>> \in Seq(Downward)
    BY EmptySeq
  <2>. QED  BY <2>1, ApplyFold
<1>. QED  BY <1>1, <1>2, <1>3

LEMMA SettledInit ==
    Init => SettledInv
  BY DEF Init, SettledInv, Range

\* Steps that leave the observer's side and the state in the slot alone.
LEMMA SettledUnchanged ==
    ASSUME SettledInv,
           MaxInputs = 0 => \A m \in Range(up') : m \in Range(up) \/ m.body.kind # "input",
           UNCHANGED <<down, watching, proxy>>, slot'.state = slot.state,
           slot.connected => slot'.connected
    PROVE  SettledInv'
<1>1. Settled' = Settled
  BY DEF Settled
<1>. QED  BY <1>1 DEF SettledInv

\* A replay of the slot, to an empty proxy or to one that is up to date.
LEMMA ReplayIsShown ==
    ASSUME TypeOK, DownInv, NEW x \in Proxies,
           x.in_use => slot.state.who = 1 /\ Shows(x, slot.state)
    PROVE  Apply(x, slot.state).in_use
             => slot.state.who = 1 /\ Shows(Apply(x, slot.state), slot.state)
<1>0. slot.state \in StateMessages
  BY DEF TypeOK, Slots
<1>1. CASE slot.state.who = 0
  <2>1. slot.state.kind # "left"
    BY <1>0 DEF StateMessages
  <2>2. Apply(x, slot.state) = x
    BY <1>1, <2>1 DEF Apply, rpm_apply_remote_player_state
  <2>. QED  BY <1>1, <2>2
<1>2. CASE slot.state.who = 1
  <2>1. Stamped(slot.state)
    BY <1>0, <1>2 DEF DownInv, Stamped, StateMessages
  <2>2. CASE x.in_use
    BY <1>0, <1>2, <2>1, <2>2, SameIsShown
  <2>3. CASE ~x.in_use
    BY <1>0, <1>2, <2>1, <2>3, NewerIsShown
  <2>. QED  BY <1>2, <2>2, <2>3
<1>. QED  BY <1>0, <1>1, <1>2 DEF StateMessages

LEMMA SettledService ==
    ASSUME Ordered, IInv, SettledInv, ServiceReceives
    PROVE  SettledInv'
<1>0. TypeOK /\ UpInv /\ DownInv
  BY DEF IInv
<1>1. PICK k \in Arrivals(up) :
        /\ up' \in Taken(up, k)
        /\ \/ up[k].body.kind = "hello" /\ HandleHello(up[k])
           \/ /\ up[k].body.kind # "hello"
              /\ IF Routed(up[k])
                 THEN HandlePlayerMessage(up[k].body) ELSE UNCHANGED <<slot, down>>
              /\ UNCHANGED greeted
        /\ UNCHANGED <<pub, made, watching, proxy>>
  BY DEF ServiceReceives
<1> DEFINE d == up[k]
           m == up[k].body
<1>2. Range(up') \subseteq Range(up) /\ d \in Range(up)
  BY <1>0, <1>1, TakenAddsNothing DEF TypeOK
<1>3. /\ m \in UpBodies /\ m.kind \in {"hello", "state", "input", "disconnect"}
      /\ m.kind = "input" => MaxInputs # 0
  <2>1. Range(up) \subseteq Upward
    BY <1>0, RangeOfSeq DEF TypeOK
  <2>2. m \in UpBodies /\ (m.kind = "input" => MaxInputs # 0)
    BY <1>2, <2>1 DEF Upward, SettledInv
  <2>. QED  BY <2>2 DEF UpBodies, StateMessages
<1>4. CASE UNCHANGED <<slot, down>>
  BY <1>1, <1>2, <1>4, SettledUnchanged
<1>5. CASE Routed(d) /\ m.kind = "state" /\ psr_evaluate(slot.stats, m)
  <2>1. slot' = [slot EXCEPT !.stats = psr_absorb(@, m), !.state = m] /\ Tell(m)
    BY <1>1, <1>5 DEF HandlePlayerMessage, HandlePlayerState
  <2>2. m \in StateMessages /\ m \in Downward
    BY <1>3, <1>5 DEF UpBodies, Downward
  <2>3. m.who = 1 /\ Stamped(m)
    BY <1>0, <1>2, <1>5 DEF UpInv
  <2> HIDE DEF m, d
  <2>4. slot'.connected = slot.connected /\ slot'.state = m
    BY <1>0, <2>1 DEF TypeOK, Slots
  <2>5. ASSUME watching, MaxInputs = 0  PROVE Shows(Settled', m)
    <3>1. Settled \in Proxies /\ Settled' = Apply(Settled, m)
      BY <1>0, <1>1, <2>1, <2>2, <2>5, SettledSteps DEF Tell
    <3>2. LexLess(slot.state, m)
      BY <1>0, <1>5, <2>3, AcceptedAdvances
    <3>3. Settled.in_use => LexLess(Settled, m)
      BY <2>5, <3>2 DEF SettledInv, Shows, LexLess
    <3>. QED  BY <2>2, <2>3, <3>1, <3>3, NewerIsShown
  <2>. QED  BY <1>1, <1>2, <1>5, <2>3, <2>4, <2>5 DEF SettledInv, Routed
<1>6. CASE Routed(d) /\ m.kind = "disconnect"
  <2>1. Tell(Left) /\ Left \in Downward /\ Left.kind = "left"
    BY <1>1, <1>6 DEF HandlePlayerMessage, HandleDisconnect, Downward, Left
  <2>2. watching => ~Settled'.in_use
    <3>1. watching => Settled' = Apply(Settled, Left)
      BY <1>0, <1>1, <2>1, SettledSteps DEF Tell
    <3>. QED  BY <2>1, <3>1 DEF Apply, NoProxy
  <2>. QED  BY <1>1, <1>2, <2>2 DEF SettledInv
<1>7. CASE Routed(d) /\ m.kind = "input"
  <2>1. slot' = [slot EXCEPT !.state.look = m.look]
    BY <1>1, <1>7 DEF HandlePlayerMessage, ac_handle_input_state
  <2>2. slot'.connected = slot.connected /\ MaxInputs # 0
    BY <1>0, <1>3, <1>7, <2>1 DEF TypeOK, Slots
  <2>. QED  BY <1>7, <2>2 DEF SettledInv, Routed
<1>8. CASE m.kind = "hello"
  <2>1. slot' = [slot EXCEPT !.connected = TRUE, !.conn = d.conn] /\ down' = down
    BY <1>1, <1>8 DEF HandleHello
  <2>2. slot'.connected /\ slot'.state = slot.state
    BY <1>0, <2>1 DEF TypeOK, Slots
  <2>. QED  BY <1>1, <1>2, <2>1, <2>2, SettledUnchanged
<1>9. \/ m.kind = "hello"
      \/ UNCHANGED <<slot, down>>
      \/ /\ Routed(d)
         /\ \/ m.kind = "state" /\ psr_evaluate(slot.stats, m)
            \/ m.kind = "disconnect" \/ m.kind = "input"
  <2>1. Routed(d) /\ m.kind = "state" => HandlePlayerState(m)
    BY <1>1 DEF HandlePlayerMessage
  <2>2. m.kind # "hello" /\ ~Routed(d) => UNCHANGED <<slot, down>>
    BY <1>1
  <2>. QED  BY <1>3, <2>1, <2>2 DEF HandlePlayerState
<1>. QED  BY <1>4, <1>5, <1>6, <1>7, <1>8, <1>9

LEMMA SettledObserver ==
    ASSUME Ordered, IInv, SettledInv,
           ObserverStarts \/ ObserverHelloAgain \/ ObserverCloses \/ ObserverReceives
    PROVE  SettledInv'
<1>0. TypeOK /\ UpInv /\ DownInv /\ IInv'
  BY ObserverHolds DEF IInv
<1>1. slot.state \in Downward /\ NoProxy \in Proxies /\ ~NoProxy.in_use
  <2> DEFINE c == CHOOSE l \in Looks : TRUE
  <2>1. NoProxy = [in_use |-> FALSE, seq |-> 0, tick |-> 0, look |-> c, run |-> 0] /\ c \in Looks
    BY PathAssumption DEF NoProxy
  <2> HIDE DEF c
  <2>. QED  BY <1>0, <2>1 DEF TypeOK, Slots, Downward, Proxies
<1>2. CASE ObserverStarts
  <2>1. proxy' = NoProxy /\ down' = Replay /\ UNCHANGED <<pub, made, up, slot, greeted>>
    BY <1>2 DEF ObserverStarts
  <2>2. CASE ~slot.connected
    <3>1. down' = <<>>
      BY <2>1, <2>2 DEF Replay
    <3>2. Settled' = NoProxy
      BY <1>0, <1>1, <2>1, <3>1, SettledSteps
    <3>. QED  BY <1>1, <2>1, <3>2 DEF SettledInv
  <2>3. CASE slot.connected
    <3>1. down' = Append(<<>>, slot.state)
      BY <2>1, <2>3 DEF Replay
    <3>2. Settled' = Apply(NoProxy, slot.state)
      <4>1. <<>> \in Seq(Downward)
        BY EmptySeq
      <4>2. ApplyAll(NoProxy, Append(<<>>, slot.state)) = Apply(NoProxy, slot.state)
        <5>1. /\ ApplyAll(NoProxy, <<>>) = NoProxy
              /\ \A m \in Downward :
                    ApplyAll(NoProxy, Append(<<>>, m)) = Apply(ApplyAll(NoProxy, <<>>), m)
          BY <1>1, <4>1, ApplyFold
        <5>. QED  BY <1>1, <5>1
      <4>3. Settled' = ApplyAll(proxy', down')
        BY DEF Settled, ApplyAll
      <4>. QED  BY <2>1, <3>1, <4>2, <4>3
    <3>3. Settled'.in_use => slot.state.who = 1 /\ Shows(Settled', slot.state)
      BY <1>0, <1>1, <2>3, <3>2, ReplayIsShown
    <3>. QED  BY <2>1, <2>3, <3>3 DEF SettledInv
  <2>. QED  BY <2>2, <2>3
<1>3. CASE ObserverHelloAgain
  <2>1. watching /\ down' = down \o Replay /\ UNCHANGED <<pub, made, up, slot, greeted, watching, proxy>>
    BY <1>3 DEF ObserverHelloAgain
  <2>2. down \in Seq(Downward)
    BY <1>0 DEF TypeOK
  <2>3. CASE ~slot.connected
    <3>1. down' = down
      BY <2>1, <2>2, <2>3, ConcatEmptySeq DEF Replay
    <3>. QED  BY <2>1, <3>1, SettledUnchanged
  <2>4. CASE slot.connected
    <3>1. down' = Append(down, slot.state)
      BY <1>1, <2>1, <2>2, <2>4, AppendIsConcat DEF Replay
    <3>2. Settled \in Proxies /\ Settled' = Apply(Settled, slot.state)
      BY <1>0, <1>1, <2>1, <3>1, SettledSteps
    <3>3. Settled'.in_use /\ MaxInputs = 0 => slot.state.who = 1 /\ Shows(Settled', slot.state)
      BY <1>0, <2>1, <2>4, <3>2, ReplayIsShown DEF SettledInv
    <3>. QED  BY <2>1, <2>4, <3>3 DEF SettledInv
  <2>. QED  BY <2>3, <2>4
<1>4. CASE ObserverCloses
  BY <1>4 DEF ObserverCloses, SettledInv
<1>5. CASE ObserverReceives
  <2>1. PICK k \in Arrivals(down) : proxy' = Apply(proxy, down[k]) /\ down' \in Taken(down, k)
    BY <1>5 DEF ObserverReceives
  <2>2. UNCHANGED <<pub, made, up, slot, greeted, watching>>
    BY <1>5 DEF ObserverReceives
  <2>3. down \in Seq(Downward) /\ k = 1 /\ Len(down) \in Nat \ {0} /\ down # <<>>
    BY <1>0, <2>1 DEF TypeOK, Arrivals, Ordered
  <2>4. down' = Tail(down)
    <3>1. down' = RemoveAt(down, 1)
      BY <2>1, <2>3 DEF Taken, Ordered
    <3>2. 1 \in 1 .. Len(down)
      BY <2>3
    <3>3. /\ down' \in Seq(Downward) /\ Len(down') = Len(down) - 1
          /\ \A i \in 1 .. (Len(down) - 1) : down'[i] = down[i + 1]
      <4>1. \A i \in 1 .. (Len(down) - 1) : ~(i < 1)
        BY <2>3
      <4>. QED  BY <2>3, <3>1, <3>2, <4>1, RemoveAtElements
    <3>4. /\ Tail(down) \in Seq(Downward) /\ Len(Tail(down)) = Len(down) - 1
          /\ \A i \in 1 .. (Len(down) - 1) : Tail(down)[i] = down[i + 1]
      BY <2>3
    <3>. QED  BY <3>3, <3>4, SeqEqual
  <2>5. Settled' = Settled
    BY <1>0, <2>1, <2>3, <2>4, SettledSteps
  <2>. QED  BY <2>2, <2>5 DEF SettledInv
<1>. QED  BY <1>2, <1>3, <1>4, <1>5

LEMMA SettledHolds ==
    ASSUME Ordered
    PROVE  IInv /\ SettledInv /\ [Next]_vars => SettledInv'
<1> SUFFICES ASSUME IInv, SettledInv, [Next]_vars  PROVE SettledInv'
  OBVIOUS
<1>0. TypeOK
  BY DEF IInv
<1>1. CASE Move \/ PublisherRestarts
  <2>1. up' = up /\ UNCHANGED <<down, watching, proxy>> /\ slot'.state = slot.state
        /\ (slot.connected => slot'.connected)
    BY <1>0, <1>1 DEF Move, PublisherRestarts, TypeOK
  <2>. QED  BY <2>1, SettledUnchanged
<1>2. CASE PublisherOpens \/ PublisherHelloAgain \/ PublisherTicks \/ PublisherCloses
  <2>1. UNCHANGED <<slot, down, watching, proxy>>
    BY <1>2 DEF PublisherOpens, PublisherHelloAgain, PublisherTicks, PublisherCloses
  <2>2. ASSUME NEW c \in Nat, NEW b \in UpBodies, b.kind # "input",
               up' = Append(up, [conn |-> c, body |-> b])
        PROVE  \A m \in Range(up') : m \in Range(up) \/ m.body.kind # "input"
    <3>1. [conn |-> c, body |-> b] \in Upward
      BY DEF Upward
    <3>2. Range(up') = Range(up) \cup {[conn |-> c, body |-> b]}
      BY <1>0, <2>2, <3>1, RangeAppend DEF TypeOK
    <3>. QED  BY <2>2, <3>2
  <2>4. pub.conn \in Nat /\ IInv'
    BY <1>0, <1>2, PublisherHolds, PublisherTicksHolds DEF TypeOK, Publishers
  <2>3. \A m \in Range(up') : m \in Range(up) \/ m.body.kind # "input"
    <3>1. CASE PublisherCloses
      <4> DEFINE b == [kind |-> "disconnect"]
      <4>1. b \in UpBodies /\ b.kind # "input"
        BY DEF UpBodies
      <4>2. up' = Append(up, [conn |-> pub.conn, body |-> b]) \/ up' = up
        BY <3>1 DEF PublisherCloses
      <4> HIDE DEF b
      <4>. QED  BY <2>2, <2>4, <4>1, <4>2
    <3>2. CASE PublisherTicks
      <4>1. CASE up' = up
        BY <4>1
      <4>2. CASE up' = Append(up, [conn |-> pub.conn, body |-> StateOf(pub')])
        <5>1. pub' \in Publishers
          BY <3>2, PublisherTicksHolds DEF IInv, TypeOK
        <5>2. StateOf(pub') \in UpBodies /\ StateOf(pub').kind # "input"
          BY <5>1 DEF StateOf, UpBodies, StateMessages, Publishers
        <5>. QED  BY <2>2, <2>4, <4>2, <5>2
      <4>. QED  BY <3>2, <4>1, <4>2 DEF PublisherTicks
    <3>3. CASE PublisherOpens \/ PublisherHelloAgain
      <4> DEFINE b == HelloOf(pub)
      <4>1. b \in UpBodies /\ b.kind # "input"
        BY <1>0 DEF HelloOf, UpBodies, TypeOK, Publishers
      <4>2. \E c \in {pub.conn, pub'.conn} : up' = Append(up, [conn |-> c, body |-> b])
        BY <3>3 DEF PublisherOpens, PublisherHelloAgain
      <4>3. pub'.conn \in Nat
        BY <2>4 DEF IInv, TypeOK, Publishers
      <4> HIDE DEF b
      <4>. QED  BY <2>2, <2>4, <4>1, <4>2, <4>3
    <3>. QED  BY <1>2, <3>1, <3>2, <3>3
  <2>. QED  BY <2>1, <2>3, SettledUnchanged
<1>3. CASE PublisherInput
  <2>1. MaxInputs # 0 /\ UNCHANGED <<slot, down, watching, proxy>>
    BY <1>0, <1>3 DEF PublisherInput, TypeOK, Counters
  <2>. QED  BY <2>1, SettledUnchanged
<1>4. CASE ServiceReceives
  BY <1>4, SettledService
<1>5. CASE ObserverStarts \/ ObserverHelloAgain \/ ObserverCloses \/ ObserverReceives
  BY <1>5, SettledObserver
<1>6. CASE Lose
  BY <1>6 DEF Lose, Ordered
<1>7. CASE UNCHANGED vars
  BY <1>7, SettledUnchanged DEF vars
<1>. QED  BY <1>1, <1>2, <1>3, <1>4, <1>5, <1>6, <1>7 DEF Next

LEMMA SettledInvariance ==
    ASSUME Ordered
    PROVE  Spec => [](IInv /\ SettledInv)
<1>1. Init => IInv /\ SettledInv
  BY InitHolds, SettledInit
<1>2. IInv /\ SettledInv /\ [Next]_vars => (IInv /\ SettledInv)'
  BY StepHolds, SettledHolds
<1>. QED  BY <1>1, <1>2, PTL DEF Spec

\* What the service accepts the observer never refuses: on a network that keeps
\* order, and without MSG_INPUT_STATE, which changes a state but not its stamps,
\* a shown publisher is shown with the state in its slot.
THEOREM ShownStateIsRelayed ==
    ASSUME Window = 1, ~Unreliable, MaxInputs = 0
    PROVE  Spec => []ShownIsRelayed
<1>1. Ordered
  BY DEF Ordered
<1>2. IInv /\ SettledInv => ShownIsRelayed
  BY DEF SettledInv, Shows, ShownIsRelayed
<1>. QED  BY <1>1, <1>2, SettledInvariance, PTL

\* "explicit disconnect removes the remote proxy": on such a network an observer
\* to whom nothing is on its way shows the publisher only while it is connected
\* (tl_broadcast_player_left, tl_send_existing_state_to_player).
THEOREM NoGhostStays ==
    ASSUME Window = 1, ~Unreliable
    PROVE  Spec => []NoGhostPlayer
<1>1. Ordered
  BY DEF Ordered
<1>2. IInv /\ SettledInv => NoGhostPlayer
  <2> SUFFICES ASSUME IInv, SettledInv, watching, down = <<>>, proxy.in_use PROVE slot.connected
    BY DEF NoGhostPlayer
  <2>1. Settled = proxy
    BY SettledSteps DEF IInv
  <2>. QED  BY <2>1 DEF SettledInv
<1>. QED  BY <1>1, <1>2, SettledInvariance, PTL

=============================================================================
