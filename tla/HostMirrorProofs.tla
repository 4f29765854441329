-------------------------- MODULE HostMirrorProofs --------------------------
(***************************************************************************)
(* Theorems about the dialogue and quest mirror, for any guests, lists,    *)
(* limits and bounds.                                                      *)
(***************************************************************************)
EXTENDS HostMirror, SharedLemmas, TLAPS

Choice == [choice_id : Nat, enabled : BOOLEAN, text : Texts]

Objective == [objective_id : Nat, state : Nat, text : Texts]

DialogueStates ==
    [active : BOOLEAN, dialogue_id : Dialogues \cup {0}, npc : Npcs \cup {0},
     speaker : Npcs \cup {0}, choices : Seq(Choice)]

QuestStates == [loaded : BOOLEAN, quest_id : Nat, stage : Nat, objectives : Seq(Objective)]

Selects == [player : Guests \cup {0}, dialogue_id : Dialogues \cup {0}, choice_id : Nat]

OpenMsgs == [kind : {"open"}, dialogue_id : Dialogues, npc : Npcs, speaker : Npcs]

LineMsgs == [kind : {"line"}, dialogue_id : Dialogues \cup {0}, speaker : Npcs \cup {0}]

ChoicesMsgs == [kind : {"choices"}, dialogue_id : Dialogues, choices : Seq(Choice)]

CloseMsgs == [kind : {"close"}, dialogue_id : Dialogues \cup {0}]

DeathMsgs == [kind : {"death"}, actor : Npcs]

QuestMsgs == [kind : {"quest"}, quest_id : QuestIds, stage : Stages, objectives : Seq(Objective)]

Messages == OpenMsgs \cup LineMsgs \cup ChoicesMsgs \cup CloseMsgs \cup DeathMsgs \cup QuestMsgs

TypeOK ==
    /\ dialogue \in DialogueStates
    /\ quest \in QuestStates
    /\ pending \in Selects
    /\ popped \in Selects
    /\ connected \in SUBSET Guests
    /\ chan \in [Guests -> Seq(Messages)]
    /\ up \in [Guests -> Selects]
    /\ gd \in [Guests -> DialogueStates]
    /\ gq \in [Guests -> QuestStates]
    /\ intact \in SUBSET connected
    /\ fresh \in SUBSET connected
    /\ answers \in Nat
    /\ reports \in Nat

-----------------------------------------------------------------------------
(***************************************************************************)
(* Lists with texts                                                        *)
(***************************************************************************)

\* Entries whose text can be replaced and blanked.
Texted(S) ==
    \A x \in S : /\ x.text \in Texts
                 /\ \A t \in Texts : /\ [x EXCEPT !.text = t] \in S
                                      /\ [[x EXCEPT !.text = t] EXCEPT !.text = ""]
                                           = [x EXCEPT !.text = ""]

LEMMA ListsAreTexted ==
    Texted(Choice) /\ Texted(Objective)
<1>1. Texted(Choice)
  <2>1. ASSUME NEW x \in Choice  PROVE x.text \in Texts
    BY DEF Choice
  <2>2. ASSUME NEW x \in Choice, NEW t \in Texts
        PROVE  /\ [x EXCEPT !.text = t] \in Choice
               /\ [[x EXCEPT !.text = t] EXCEPT !.text = ""] = [x EXCEPT !.text = ""]
    BY DEF Choice
  <2>. QED  BY <2>1, <2>2 DEF Texted
<1>2. Texted(Objective)
  <2>1. ASSUME NEW x \in Objective  PROVE x.text \in Texts
    BY DEF Objective
  <2>2. ASSUME NEW x \in Objective, NEW t \in Texts
        PROVE  /\ [x EXCEPT !.text = t] \in Objective
               /\ [[x EXCEPT !.text = t] EXCEPT !.text = ""] = [x EXCEPT !.text = ""]
    BY DEF Objective
  <2>. QED  BY <2>1, <2>2 DEF Texted
<1>. QED  BY <1>1, <1>2

LEMMA ClampKeeps ==
    ASSUME NEW S, NEW l \in Seq(S), NEW max \in Nat
    PROVE  /\ Clamp(l, max) \in Seq(S)
           /\ Len(Clamp(l, max)) = IF Len(l) < max THEN Len(l) ELSE max
           /\ \A i \in 1 .. Len(Clamp(l, max)) : Clamp(l, max)[i] = l[i]
  BY DEF Clamp

\* What the encoder does to a list is to its texts only.
LEMMA WireListIds ==
    ASSUME NEW S, Texted(S), NEW l \in Seq(S), NEW max \in Nat
    PROVE  /\ WireList(l, max) \in Seq(S)
           /\ Clamp(WireList(l, max), max) \in Seq(S)
           /\ Ids(Clamp(WireList(l, max), max)) = Ids(Clamp(l, max))
<1> DEFINE c == Clamp(l, max)
           n == Len(c)
           t(i) == IF n + i <= max THEN "" ELSE c[n + i - max].text
           w == [i \in 1 .. n |-> [c[i] EXCEPT !.text = t(i)]]
<1>1. c \in Seq(S) /\ n \in Nat /\ n <= max
  BY ClampKeeps
<1>2. WireList(l, max) = w
  BY DEF WireList
<1> HIDE DEF c
<1>3. ASSUME NEW i \in 1 .. n
      PROVE  /\ [c[i] EXCEPT !.text = t(i)] \in S
             /\ [[c[i] EXCEPT !.text = t(i)] EXCEPT !.text = ""] = [c[i] EXCEPT !.text = ""]
  <2>1. c[i] \in S
    BY <1>1, ElementOfSeq
  <2>2. t(i) \in Texts
    <3>1. CASE n + i <= max
      BY <3>1, MirrorAssumption
    <3>2. CASE ~(n + i <= max)
      <4>1. n + i - max \in 1 .. n
        BY <1>1, <3>2
      <4>2. c[n + i - max] \in S
        BY <1>1, <4>1, ElementOfSeq
      <4>. QED  BY <3>2, <4>2 DEF Texted
    <3>. QED  BY <3>1, <3>2
  <2> HIDE DEF t
  <2>. QED  BY <2>1, <2>2 DEF Texted
<1> HIDE DEF t
<1>4. w \in Seq(S) /\ Len(w) = n /\ DOMAIN w = 1 .. n
  <2>1. w \in [1 .. n -> S]
    BY <1>3
  <2> HIDE DEF w
  <2>. QED  BY <1>1, <2>1, SeqDef, LenProperties
<1>5. Clamp(w, max) = w
  <2>1. /\ Clamp(w, max) \in Seq(S) /\ Len(Clamp(w, max)) = n
        /\ \A i \in 1 .. n : Clamp(w, max)[i] = w[i]
    <3> HIDE DEF w
    <3>1. Len(Clamp(w, max)) = IF Len(w) < max THEN Len(w) ELSE max
      BY <1>4, ClampKeeps
    <3>2. Len(Clamp(w, max)) = n
      <4> HIDE DEF n
      <4>. QED  BY <1>1, <1>4, <3>1
    <3>. QED  BY <1>4, <3>2, ClampKeeps
  <2> HIDE DEF w
  <2>. QED  BY <1>4, <2>1, SeqEqual
<1>6. Ids(w) = Ids(c)
  <2>1. \A i \in 1 .. n : [w[i] EXCEPT !.text = ""] = [c[i] EXCEPT !.text = ""]
    BY <1>3
  <2>2. DOMAIN c = 1 .. n
    BY <1>1
  <2> HIDE DEF w
  <2>. QED  BY <1>4, <2>1, <2>2 DEF Ids
<1>. QED  BY <1>2, <1>4, <1>5, <1>6 DEF c

-----------------------------------------------------------------------------
(***************************************************************************)
(* A guest's handlers                                                      *)
(***************************************************************************)

LEMMA KindsDiffer ==
    ASSUME NEW m
    PROVE  /\ m \in OpenMsgs => m.kind = "open"
           /\ m \in LineMsgs => m.kind = "line"
           /\ m \in ChoicesMsgs => m.kind = "choices"
           /\ m \in CloseMsgs => m.kind = "close"
           /\ m \in DeathMsgs => m.kind = "death"
           /\ m \in QuestMsgs => m.kind = "quest"
  BY DEF OpenMsgs, LineMsgs, ChoicesMsgs, CloseMsgs, DeathMsgs, QuestMsgs

LEMMA EmptyRecords ==
    NoDialogue \in DialogueStates /\ NoQuest \in QuestStates /\ NoSelect \in Selects
<1>1. <<>> \in Seq(Choice) /\ <<>> \in Seq(Objective)
  BY EmptySeq
<1>. QED  BY <1>1 DEF NoDialogue, NoQuest, NoSelect, DialogueStates, QuestStates, Selects

LEMMA DialogueTyped ==
    ASSUME NEW v \in DialogueStates
    PROVE  /\ \A d \in Dialogues \cup {0}, s \in Npcs \cup {0} : WithLine(v, d, s) \in DialogueStates
           /\ \A d : Closed(v, d) \in DialogueStates
           /\ \A l \in Seq(Choice), d \in Dialogues, b \in BOOLEAN :
                 [v EXCEPT !.active = b, !.dialogue_id = d, !.choices = l] \in DialogueStates
           /\ \A l \in Seq(Choice) : [v EXCEPT !.choices = l] \in DialogueStates
           /\ \A a : Interrupted(v, a) \in DialogueStates
<1>1. <<>> \in Seq(Choice)
  BY EmptySeq
<1>2. \A d \in Dialogues \cup {0}, s \in Npcs \cup {0} : WithLine(v, d, s) \in DialogueStates
  BY DEF WithLine, DialogueStates
<1>3. \A l \in Seq(Choice) : [v EXCEPT !.active = FALSE, !.choices = l] \in DialogueStates
  BY DEF DialogueStates
<1>4. \A l \in Seq(Choice), d \in Dialogues, b \in BOOLEAN :
         [v EXCEPT !.active = b, !.dialogue_id = d, !.choices = l] \in DialogueStates
  BY DEF DialogueStates
<1>5. \A l \in Seq(Choice) : [v EXCEPT !.choices = l] \in DialogueStates
  BY DEF DialogueStates
<1>. QED  BY <1>1, <1>2, <1>3, <1>4, <1>5 DEF Closed, Interrupted

LEMMA ApplyDialogueTyped ==
    \A x \in DialogueStates, m \in Messages : ApplyDialogue(x, m) \in DialogueStates
<1> SUFFICES ASSUME NEW x \in DialogueStates, NEW m \in Messages
             PROVE  ApplyDialogue(x, m) \in DialogueStates
  OBVIOUS
<1>1. CASE m \in OpenMsgs
  <2>1. <<>> \in Seq(Choice) /\ m.kind = "open"
    BY <1>1, EmptySeq DEF OpenMsgs
  <2>. QED  BY <1>1, <2>1 DEF ApplyDialogue, OpenMsgs, NoDialogue, DialogueStates
<1>2. CASE m \in LineMsgs
  BY <1>2, DialogueTyped DEF ApplyDialogue, LineMsgs
<1>3. CASE m \in ChoicesMsgs
  <2>1. Clamp(m.choices, MaxChoices) \in Seq(Choice) /\ m.dialogue_id \in Dialogues /\ m.kind = "choices"
    BY <1>3, ClampKeeps, MirrorAssumption DEF ChoicesMsgs
  <2>2. ApplyDialogue(x, m) = [x EXCEPT !.active = TRUE, !.dialogue_id = m.dialogue_id,
                                        !.choices = Clamp(m.choices, MaxChoices)]
    BY <2>1 DEF ApplyDialogue
  <2> DEFINE c == Clamp(m.choices, MaxChoices)
  <2>3. [x EXCEPT !.active = TRUE, !.dialogue_id = m.dialogue_id, !.choices = c] \in DialogueStates
    <3>1. c \in Seq(Choice) /\ TRUE \in BOOLEAN
      BY <2>1
    <3> HIDE DEF c
    <3>. QED  BY <2>1, <3>1 DEF DialogueStates
  <2>. QED  BY <2>2, <2>3
<1>4. CASE m \in CloseMsgs
  BY <1>4, DialogueTyped DEF ApplyDialogue, CloseMsgs
<1>5. CASE m \in DeathMsgs
  BY <1>5, DialogueTyped DEF ApplyDialogue, DeathMsgs
<1>6. CASE m \in QuestMsgs
  BY <1>6, KindsDiffer DEF ApplyDialogue
<1>. QED  BY <1>1, <1>2, <1>3, <1>4, <1>5, <1>6 DEF Messages

LEMMA ApplyQuestTyped ==
    \A x \in QuestStates, m \in Messages : ApplyQuest(x, m) \in QuestStates
<1> SUFFICES ASSUME NEW x \in QuestStates, NEW m \in Messages
             PROVE  ApplyQuest(x, m) \in QuestStates
  OBVIOUS
<1>1. CASE m \in QuestMsgs
  <2> DEFINE l == Clamp(m.objectives, MaxObjectives)
  <2>1. l \in Seq(Objective)
    BY <1>1, ClampKeeps, MirrorAssumption DEF QuestMsgs
  <2>2. m.kind = "quest" /\ m.quest_id \in Nat /\ m.stage \in Nat
    BY <1>1, MirrorAssumption DEF QuestMsgs
  <2>3. ApplyQuest(x, m) = [loaded |-> TRUE, quest_id |-> m.quest_id, stage |-> m.stage, objectives |-> l]
    BY <2>2 DEF ApplyQuest
  <2> HIDE DEF l
  <2>. QED  BY <2>1, <2>2, <2>3 DEF QuestStates
<1>2. CASE m \notin QuestMsgs
  BY <1>2, KindsDiffer DEF ApplyQuest, Messages
<1>. QED  BY <1>1, <1>2

-----------------------------------------------------------------------------
(***************************************************************************)
(* What a guest shows once its channel is empty                            *)
(***************************************************************************)

DialogueAfter(b, w) == FoldLeft(ApplyDialogue, b, w)

LEMMA ApplyDialogueFoldTrace ==
    ASSUME NEW b \in DialogueStates, NEW w \in Seq(Messages)
    PROVE  FoldsTo(DialogueStates, [x \in DialogueStates \X Messages |-> ApplyDialogue(x[1], x[2])], b, w, FoldLeft(ApplyDialogue, b, w))
<1> DEFINE F == [x \in DialogueStates \X Messages |-> ApplyDialogue(x[1], x[2])]
           S == SUBSET (1 .. Len(w))
           iter == CHOOSE it : it = [s \in S |-> IF s = {} THEN b
                                                  ELSE ApplyDialogue(it[s \ {Max(s)}], w[Max(s)])]
<1>0. Len(w) \in Nat
  OBVIOUS
<1>1. /\ F \in [DialogueStates \X Messages -> DialogueStates]
      /\ \A a \in DialogueStates, m \in Messages : F[<<a, m>>] = ApplyDialogue(a, m)
  BY ApplyDialogueTyped
<1>2. FoldLeft(ApplyDialogue, b, w) = iter[1 .. Len(w)]
  <2>1. DOMAIN w = 1 .. Len(w)
    OBVIOUS
  <2>. QED  BY <2>1 DEF FoldLeft, MapThenFoldSet
<1>3. PICK g \in [S -> DialogueStates] : FoldsOver(F, b, w, Len(w), g)
  <2> HIDE DEF F
  <2>. QED  BY <1>1, FoldFunctionExists
<1>4. g = [s \in S |-> IF s = {} THEN b ELSE ApplyDialogue(g[s \ {Max(s)}], w[Max(s)])]
  <2>1. ASSUME NEW s \in S, s # {}
        PROVE  F[<<g[s \ {Max(s)}], w[Max(s)]>>] = ApplyDialogue(g[s \ {Max(s)}], w[Max(s)])
    <3> DEFINE x == Max(s)
    <3>1. x \in s
      BY <1>0, <2>1, MaxIsIn
    <3> HIDE DEF x, F
    <3>2. s \ {x} \in S /\ x \in 1 .. Len(w)
      BY <3>1
    <3> HIDE DEF S
    <3>3. g[s \ {x}] \in DialogueStates
      BY <1>3, <3>2
    <3>4. w[x] \in Messages
      BY <3>2, ElementOfSeq
    <3>. QED  BY <1>1, <3>3, <3>4 DEF x
  <2>2. g = [s \in S |-> IF s = {} THEN b ELSE F[<<g[s \ {Max(s)}], w[Max(s)]>>]]
    BY <1>3 DEF FoldsOver
  <2> HIDE DEF F
  <2>. QED  BY <2>1, <2>2
<1>5. iter = [s \in S |-> IF s = {} THEN b ELSE ApplyDialogue(iter[s \ {Max(s)}], w[Max(s)])]
  BY <1>4
<1> HIDE DEF iter
<1>6. iter[{}] = b
  BY <1>5
<1>7. ASSUME NEW s \in S, s # {}, iter[s \ {Max(s)}] \in DialogueStates
      PROVE  iter[s] = F[<<iter[s \ {Max(s)}], w[Max(s)]>>]
  <2>1. w[Max(s)] \in Messages
    <3>1. Max(s) \in s
      BY <1>0, <1>7, MaxIsIn
    <3>2. Max(s) \in 1 .. Len(w)
      BY <3>1
    <3>. QED  BY <3>2, ElementOfSeq
  <2>2. iter[s] = ApplyDialogue(iter[s \ {Max(s)}], w[Max(s)])
    BY <1>5, <1>7
  <2> HIDE DEF F
  <2>. QED  BY <1>1, <1>7, <2>1, <2>2
<1>8. FoldsTo(DialogueStates, F, b, w, iter[1 .. Len(w)])
  <2> HIDE DEF F
  <2>1. StepsBy(DialogueStates, F, b, w, iter)
    BY <1>6, <1>7 DEF StepsBy
  <2>2. F \in [DialogueStates \X Messages -> DialogueStates]
    BY <1>1
  <2>. QED  BY <2>1, <2>2, FoldSteps
<1>. QED  BY <1>2, <1>8

\* FoldLeft of ApplyDialogue, one element at a time from either end.
LEMMA ApplyDialogueFold ==
    ASSUME NEW b \in DialogueStates, NEW w \in Seq(Messages)
    PROVE  /\ DialogueAfter(b, <<>>) = b
           /\ DialogueAfter(b, w) \in DialogueStates
           /\ \A m \in Messages : DialogueAfter(b, Append(w, m)) = ApplyDialogue(DialogueAfter(b, w), m)
           /\ w # <<>> => DialogueAfter(ApplyDialogue(b, w[1]), Tail(w)) = DialogueAfter(b, w)
<1> DEFINE F == [x \in DialogueStates \X Messages |-> ApplyDialogue(x[1], x[2])]
<1>1. \A a \in DialogueStates, m \in Messages : F[<<a, m>>] = ApplyDialogue(a, m)
  BY ApplyDialogueTyped
<1>2. \A c \in DialogueStates, u \in Seq(Messages) : FoldsTo(DialogueStates, F, c, u, DialogueAfter(c, u))
  BY ApplyDialogueFoldTrace DEF DialogueAfter
<1> HIDE DEF F
<1>3. DialogueAfter(b, <<>>) = b
  <2>1. <<>> \in Seq(Messages)
    BY EmptySeq
  <2>2. FoldsTo(DialogueStates, F, b, <<>>, DialogueAfter(b, <<>>))
    BY <1>2, <2>1
  <2>. QED  BY <2>2, FoldsToOfEmpty
<1>4. FoldsTo(DialogueStates, F, b, w, DialogueAfter(b, w)) /\ DialogueAfter(b, w) \in DialogueStates
  <2>1. FoldsTo(DialogueStates, F, b, w, DialogueAfter(b, w))
    BY <1>2
  <2>. QED  BY <2>1, FoldsToIsIn
<1>5. ASSUME NEW m \in Messages  PROVE DialogueAfter(b, Append(w, m)) = ApplyDialogue(DialogueAfter(b, w), m)
  <2>1. Append(w, m) \in Seq(Messages)
    OBVIOUS
  <2>2. FoldsTo(DialogueStates, F, b, Append(w, m), DialogueAfter(b, Append(w, m)))
    BY <1>2, <2>1
  <2>3. DialogueAfter(b, Append(w, m)) = F[<<DialogueAfter(b, w), m>>]
    BY <1>4, <2>2, FoldsToAppend
  <2>. QED  BY <1>1, <1>4, <2>3
<1>6. ASSUME w # <<>>  PROVE DialogueAfter(ApplyDialogue(b, w[1]), Tail(w)) = DialogueAfter(b, w)
  <2>1. Tail(w) \in Seq(Messages) /\ w[1] \in Messages
    BY <1>6
  <2>2. ApplyDialogue(b, w[1]) \in DialogueStates /\ F[<<b, w[1]>>] = ApplyDialogue(b, w[1])
    BY <1>1, <2>1, ApplyDialogueTyped
  <2>3. FoldsTo(DialogueStates, F, ApplyDialogue(b, w[1]), Tail(w), DialogueAfter(ApplyDialogue(b, w[1]), Tail(w)))
    BY <1>2, <2>1, <2>2
  <2>4. StartsWith(F, b, w, ApplyDialogue(b, w[1]))
    BY <1>6, <2>2 DEF StartsWith
  <2>. QED  BY <1>4, <2>3, <2>4, FoldsToTail
<1>. QED  BY <1>3, <1>4, <1>5, <1>6

QuestAfter(b, w) == FoldLeft(ApplyQuest, b, w)

LEMMA ApplyQuestFoldTrace ==
    ASSUME NEW b \in QuestStates, NEW w \in Seq(Messages)
    PROVE  FoldsTo(QuestStates, [x \in QuestStates \X Messages |-> ApplyQuest(x[1], x[2])], b, w, FoldLeft(ApplyQuest, b, w))
<1> DEFINE F == [x \in QuestStates \X Messages |-> ApplyQuest(x[1], x[2])]
           S == SUBSET (1 .. Len(w))
           iter == CHOOSE it : it = [s \in S |-> IF s = {} THEN b
                                                  ELSE ApplyQuest(it[s \ {Max(s)}], w[Max(s)])]
<1>0. Len(w) \in Nat
  OBVIOUS
<1>1. /\ F \in [QuestStates \X Messages -> QuestStates]
      /\ \A a \in QuestStates, m \in Messages : F[<<a, m>>] = ApplyQuest(a, m)
  BY ApplyQuestTyped
<1>2. FoldLeft(ApplyQuest, b, w) = iter[1 .. Len(w)]
  <2>1. DOMAIN w = 1 .. Len(w)
    OBVIOUS
  <2>. QED  BY <2>1 DEF FoldLeft, MapThenFoldSet
<1>3. PICK g \in [S -> QuestStates] : FoldsOver(F, b, w, Len(w), g)
  <2> HIDE DEF F
  <2>. QED  BY <1>1, FoldFunctionExists
<1>4. g = [s \in S |-> IF s = {} THEN b ELSE ApplyQuest(g[s \ {Max(s)}], w[Max(s)])]
  <2>1. ASSUME NEW s \in S, s # {}
        PROVE  F[<<g[s \ {Max(s)}], w[Max(s)]>>] = ApplyQuest(g[s \ {Max(s)}], w[Max(s)])
    <3> DEFINE x == Max(s)
    <3>1. x \in s
      BY <1>0, <2>1, MaxIsIn
    <3> HIDE DEF x, F
    <3>2. s \ {x} \in S /\ x \in 1 .. Len(w)
      BY <3>1
    <3> HIDE DEF S
    <3>3. g[s \ {x}] \in QuestStates
      BY <1>3, <3>2
    <3>4. w[x] \in Messages
      BY <3>2, ElementOfSeq
    <3>. QED  BY <1>1, <3>3, <3>4 DEF x
  <2>2. g = [s \in S |-> IF s = {} THEN b ELSE F[<<g[s \ {Max(s)}], w[Max(s)]>>]]
    BY <1>3 DEF FoldsOver
  <2> HIDE DEF F
  <2>. QED  BY <2>1, <2>2
<1>5. iter = [s \in S |-> IF s = {} THEN b ELSE ApplyQuest(iter[s \ {Max(s)}], w[Max(s)])]
  BY <1>4
<1> HIDE DEF iter
<1>6. iter[{}] = b
  BY <1>5
<1>7. ASSUME NEW s \in S, s # {}, iter[s \ {Max(s)}] \in QuestStates
      PROVE  iter[s] = F[<<iter[s \ {Max(s)}], w[Max(s)]>>]
  <2>1. w[Max(s)] \in Messages
    <3>1. Max(s) \in s
      BY <1>0, <1>7, MaxIsIn
    <3>2. Max(s) \in 1 .. Len(w)
      BY <3>1
    <3>. QED  BY <3>2, ElementOfSeq
  <2>2. iter[s] = ApplyQuest(iter[s \ {Max(s)}], w[Max(s)])
    BY <1>5, <1>7
  <2> HIDE DEF F
  <2>. QED  BY <1>1, <1>7, <2>1, <2>2
<1>8. FoldsTo(QuestStates, F, b, w, iter[1 .. Len(w)])
  <2> HIDE DEF F
  <2>1. StepsBy(QuestStates, F, b, w, iter)
    BY <1>6, <1>7 DEF StepsBy
  <2>2. F \in [QuestStates \X Messages -> QuestStates]
    BY <1>1
  <2>. QED  BY <2>1, <2>2, FoldSteps
<1>. QED  BY <1>2, <1>8

\* FoldLeft of ApplyQuest, one element at a time from either end.
LEMMA ApplyQuestFold ==
    ASSUME NEW b \in QuestStates, NEW w \in Seq(Messages)
    PROVE  /\ QuestAfter(b, <<>>) = b
           /\ QuestAfter(b, w) \in QuestStates
           /\ \A m \in Messages : QuestAfter(b, Append(w, m)) = ApplyQuest(QuestAfter(b, w), m)
           /\ w # <<>> => QuestAfter(ApplyQuest(b, w[1]), Tail(w)) = QuestAfter(b, w)
<1> DEFINE F == [x \in QuestStates \X Messages |-> ApplyQuest(x[1], x[2])]
<1>1. \A a \in QuestStates, m \in Messages : F[<<a, m>>] = ApplyQuest(a, m)
  BY ApplyQuestTyped
<1>2. \A c \in QuestStates, u \in Seq(Messages) : FoldsTo(QuestStates, F, c, u, QuestAfter(c, u))
  BY ApplyQuestFoldTrace DEF QuestAfter
<1> HIDE DEF F
<1>3. QuestAfter(b, <<>>) = b
  <2>1. <<>> \in Seq(Messages)
    BY EmptySeq
  <2>2. FoldsTo(QuestStates, F, b, <<>>, QuestAfter(b, <<>>))
    BY <1>2, <2>1
  <2>. QED  BY <2>2, FoldsToOfEmpty
<1>4. FoldsTo(QuestStates, F, b, w, QuestAfter(b, w)) /\ QuestAfter(b, w) \in QuestStates
  <2>1. FoldsTo(QuestStates, F, b, w, QuestAfter(b, w))
    BY <1>2
  <2>. QED  BY <2>1, FoldsToIsIn
<1>5. ASSUME NEW m \in Messages  PROVE QuestAfter(b, Append(w, m)) = ApplyQuest(QuestAfter(b, w), m)
  <2>1. Append(w, m) \in Seq(Messages)
    OBVIOUS
  <2>2. FoldsTo(QuestStates, F, b, Append(w, m), QuestAfter(b, Append(w, m)))
    BY <1>2, <2>1
  <2>3. QuestAfter(b, Append(w, m)) = F[<<QuestAfter(b, w), m>>]
    BY <1>4, <2>2, FoldsToAppend
  <2>. QED  BY <1>1, <1>4, <2>3
<1>6. ASSUME w # <<>>  PROVE QuestAfter(ApplyQuest(b, w[1]), Tail(w)) = QuestAfter(b, w)
  <2>1. Tail(w) \in Seq(Messages) /\ w[1] \in Messages
    BY <1>6
  <2>2. ApplyQuest(b, w[1]) \in QuestStates /\ F[<<b, w[1]>>] = ApplyQuest(b, w[1])
    BY <1>1, <2>1, ApplyQuestTyped
  <2>3. FoldsTo(QuestStates, F, ApplyQuest(b, w[1]), Tail(w), QuestAfter(ApplyQuest(b, w[1]), Tail(w)))
    BY <1>2, <2>1, <2>2
  <2>4. StartsWith(F, b, w, ApplyQuest(b, w[1]))
    BY <1>6, <2>2 DEF StartsWith
  <2>. QED  BY <1>4, <2>3, <2>4, FoldsToTail
<1>. QED  BY <1>3, <1>4, <1>5, <1>6

LEMMA SettledAre ==
    ASSUME NEW g
    PROVE  /\ SettledDialogue(g) = DialogueAfter(gd[g], chan[g])
           /\ SettledQuest(g) = QuestAfter(gq[g], chan[g])
           /\ SettledDialogue(g)' = DialogueAfter(gd'[g], chan'[g])
           /\ SettledQuest(g)' = QuestAfter(gq'[g], chan'[g])
  BY DEF SettledDialogue, SettledQuest, DialogueAfter, QuestAfter

\* A broadcast of one datagram.
LEMMA BroadcastOne ==
    ASSUME TypeOK, NEW m \in Messages, Broadcast(<<m>>), UNCHANGED guestVars
    PROVE  /\ chan' \in [Guests -> Seq(Messages)]
           /\ \A g \in connected :
                 /\ chan'[g] = Append(chan[g], m)
                 /\ SettledDialogue(g) \in DialogueStates
                 /\ SettledQuest(g) \in QuestStates
                 /\ SettledDialogue(g)' = ApplyDialogue(SettledDialogue(g), m)
                 /\ SettledQuest(g)' = ApplyQuest(SettledQuest(g), m)
           /\ \A g \in Guests \ connected : chan'[g] = chan[g]
<1>1. ASSUME NEW g \in Guests
      PROVE  /\ chan[g] \in Seq(Messages)
             /\ chan[g] \o <<m>> = Append(chan[g], m) /\ Append(chan[g], m) \in Seq(Messages)
  <2>1. chan[g] \in Seq(Messages)
    BY DEF TypeOK
  <2>. QED  BY <2>1, AppendIsConcat
<1>2. /\ \A g \in connected : chan'[g] = Append(chan[g], m)
      /\ \A g \in Guests \ connected : chan'[g] = chan[g]
      /\ chan' \in [Guests -> Seq(Messages)]
  BY <1>1 DEF Broadcast, TypeOK
<1>3. ASSUME NEW g \in connected
      PROVE  /\ SettledDialogue(g) \in DialogueStates
             /\ SettledQuest(g) \in QuestStates
             /\ SettledDialogue(g)' = ApplyDialogue(SettledDialogue(g), m)
             /\ SettledQuest(g)' = ApplyQuest(SettledQuest(g), m)
  <2>1. gd[g] \in DialogueStates /\ gq[g] \in QuestStates /\ chan[g] \in Seq(Messages)
    BY DEF TypeOK
  <2>2. gd'[g] = gd[g] /\ gq'[g] = gq[g] /\ chan'[g] = Append(chan[g], m)
    BY <1>2 DEF guestVars
  <2>3. /\ DialogueAfter(gd[g], chan[g]) \in DialogueStates
        /\ DialogueAfter(gd[g], Append(chan[g], m)) = ApplyDialogue(DialogueAfter(gd[g], chan[g]), m)
    BY <2>1, ApplyDialogueFold
  <2>4. /\ QuestAfter(gq[g], chan[g]) \in QuestStates
        /\ QuestAfter(gq[g], Append(chan[g], m)) = ApplyQuest(QuestAfter(gq[g], chan[g]), m)
    BY <2>1, ApplyQuestFold
  <2>. QED  BY <2>2, <2>3, <2>4, SettledAre
<1>. QED  BY <1>2, <1>3

\* A broadcast of two, as hem_apply_guest_dialogue_select makes.
LEMMA BroadcastTwo ==
    ASSUME TypeOK, NEW m \in Messages, NEW n \in Messages, Broadcast(<<m, n>>), UNCHANGED guestVars
    PROVE  /\ chan' \in [Guests -> Seq(Messages)]
           /\ \A g \in connected :
                 /\ chan'[g] = Append(Append(chan[g], m), n)
                 /\ SettledDialogue(g) \in DialogueStates
                 /\ SettledQuest(g) \in QuestStates
                 /\ SettledDialogue(g)' = ApplyDialogue(ApplyDialogue(SettledDialogue(g), m), n)
                 /\ SettledQuest(g)' = ApplyQuest(ApplyQuest(SettledQuest(g), m), n)
           /\ \A g \in Guests \ connected : chan'[g] = chan[g]
<1>1. ASSUME NEW g \in Guests
      PROVE  /\ chan[g] \in Seq(Messages)
             /\ chan[g] \o <<m, n>> = Append(Append(chan[g], m), n)
             /\ Append(chan[g], m) \in Seq(Messages)
             /\ Append(Append(chan[g], m), n) \in Seq(Messages)
  <2> DEFINE c == chan[g]
             b == Append(c, m)
             a == Append(b, n)
             d == c \o <<m, n>>
  <2>1. c \in Seq(Messages) /\ <<m, n>> \in Seq(Messages) /\ Len(<<m, n>>) = 2
    BY DEF TypeOK
  <2> HIDE DEF c
  <2>2. /\ b \in Seq(Messages) /\ Len(b) = Len(c) + 1 /\ b[Len(c) + 1] = m
        /\ \A i \in 1 .. Len(c) : b[i] = c[i]
    BY <2>1
  <2> HIDE DEF b
  <2>3. /\ a \in Seq(Messages) /\ Len(a) = Len(c) + 2 /\ a[Len(c) + 2] = n
        /\ \A i \in 1 .. (Len(c) + 1) : a[i] = b[i]
    BY <2>1, <2>2
  <2> HIDE DEF a
  <2>4. /\ d \in Seq(Messages) /\ Len(d) = Len(c) + 2
        /\ \A i \in 1 .. Len(c) : d[i] = c[i]
        /\ d[Len(c) + 1] = m /\ d[Len(c) + 2] = n
    <3>1. /\ d \in Seq(Messages) /\ Len(d) = Len(c) + 2
          /\ \A i \in 1 .. (Len(c) + 2) : d[i] = IF i <= Len(c) THEN c[i] ELSE <<m, n>>[i - Len(c)]
      BY <2>1, ConcatProperties
    <3>2. Len(c) \in Nat
      BY <2>1
    <3> HIDE DEF d
    <3>. QED  BY <3>1, <3>2
  <2> HIDE DEF d
  <2>5. \A i \in 1 .. Len(a) : a[i] = d[i]
    <3>1. Len(c) \in Nat
      BY <2>1
    <3>2. \A i \in 1 .. (Len(c) + 2) : i \in 1 .. Len(c) \/ i = Len(c) + 1 \/ i = Len(c) + 2
      BY <3>1
    <3>. QED  BY <2>2, <2>3, <2>4, <3>1, <3>2
  <2>6. a = d
    BY <2>3, <2>4, <2>5, SeqEqual
  <2>. QED  BY <2>1, <2>2, <2>3, <2>6 DEF a, b, c, d
<1>2. /\ \A g \in connected : chan'[g] = Append(Append(chan[g], m), n)
      /\ \A g \in Guests \ connected : chan'[g] = chan[g]
      /\ chan' \in [Guests -> Seq(Messages)]
  BY <1>1 DEF Broadcast, TypeOK
<1>3. ASSUME NEW g \in connected
      PROVE  /\ SettledDialogue(g) \in DialogueStates
             /\ SettledQuest(g) \in QuestStates
             /\ SettledDialogue(g)' = ApplyDialogue(ApplyDialogue(SettledDialogue(g), m), n)
             /\ SettledQuest(g)' = ApplyQuest(ApplyQuest(SettledQuest(g), m), n)
  <2> DEFINE b == Append(chan[g], m)
  <2>1. gd[g] \in DialogueStates /\ gq[g] \in QuestStates /\ chan[g] \in Seq(Messages)
        /\ b \in Seq(Messages)
    BY <1>1 DEF TypeOK
  <2>2. gd'[g] = gd[g] /\ gq'[g] = gq[g] /\ chan'[g] = Append(b, n)
    BY <1>2 DEF guestVars
  <2>3. /\ DialogueAfter(gd[g], chan[g]) \in DialogueStates
        /\ DialogueAfter(gd[g], b) = ApplyDialogue(DialogueAfter(gd[g], chan[g]), m)
    BY <2>1, ApplyDialogueFold
  <2>4. /\ QuestAfter(gq[g], chan[g]) \in QuestStates
        /\ QuestAfter(gq[g], b) = ApplyQuest(QuestAfter(gq[g], chan[g]), m)
    BY <2>1, ApplyQuestFold
  <2> HIDE DEF b
  <2>5. DialogueAfter(gd[g], Append(b, n)) = ApplyDialogue(DialogueAfter(gd[g], b), n)
    BY <2>1, ApplyDialogueFold
  <2>6. QuestAfter(gq[g], Append(b, n)) = ApplyQuest(QuestAfter(gq[g], b), n)
    BY <2>1, ApplyQuestFold
  <2>. QED  BY <2>2, <2>3, <2>4, <2>5, <2>6, SettledAre
<1>. QED  BY <1>2, <1>3

\* A guest takes its first datagram: it will show what it would have shown.
LEMMA DeliverSettles ==
    ASSUME TypeOK, NEW g \in Guests, Deliver(g)
    PROVE  /\ chan' \in [Guests -> Seq(Messages)]
           /\ gd' \in [Guests -> DialogueStates]
           /\ gq' \in [Guests -> QuestStates]
           /\ \A h \in Guests : /\ SettledDialogue(h)' = SettledDialogue(h)
                                /\ SettledQuest(h)' = SettledQuest(h)
<1> DEFINE w == chan[g]
<1>1. w \in Seq(Messages) /\ w # <<>> /\ w[1] \in Messages /\ Tail(w) \in Seq(Messages)
      /\ Head(w) = w[1]
  BY DEF TypeOK, Deliver
<1>2. gd[g] \in DialogueStates /\ gq[g] \in QuestStates
  BY DEF TypeOK
<1>3. /\ gd' = [gd EXCEPT ![g] = ApplyDialogue(gd[g], w[1])]
      /\ gq' = [gq EXCEPT ![g] = ApplyQuest(gq[g], w[1])]
      /\ chan' = [chan EXCEPT ![g] = Tail(w)]
  BY <1>1 DEF Deliver
<1>4. ApplyDialogue(gd[g], w[1]) \in DialogueStates /\ ApplyQuest(gq[g], w[1]) \in QuestStates
  BY <1>1, <1>2, ApplyDialogueTyped, ApplyQuestTyped
<1>5. /\ chan' \in [Guests -> Seq(Messages)]
      /\ gd' \in [Guests -> DialogueStates]
      /\ gq' \in [Guests -> QuestStates]
  BY <1>1, <1>3, <1>4 DEF TypeOK
<1>6. /\ DialogueAfter(ApplyDialogue(gd[g], w[1]), Tail(w)) = DialogueAfter(gd[g], w)
      /\ QuestAfter(ApplyQuest(gq[g], w[1]), Tail(w)) = QuestAfter(gq[g], w)
  <2> HIDE DEF w
  <2>. QED  BY <1>1, <1>2, ApplyDialogueFold, ApplyQuestFold
<1>7. /\ gd'[g] = ApplyDialogue(gd[g], w[1]) /\ gq'[g] = ApplyQuest(gq[g], w[1])
      /\ chan'[g] = Tail(w)
      /\ \A h \in Guests \ {g} : gd'[h] = gd[h] /\ gq'[h] = gq[h] /\ chan'[h] = chan[h]
  <2> HIDE DEF w
  <2>. QED  BY <1>3 DEF TypeOK
<1>8. ASSUME NEW h \in Guests
      PROVE  SettledDialogue(h)' = SettledDialogue(h) /\ SettledQuest(h)' = SettledQuest(h)
  <2>1. CASE h = g
    BY <1>6, <1>7, <2>1, SettledAre
  <2>2. CASE h # g
    BY <1>7, <2>2, SettledAre
  <2>. QED  BY <2>1, <2>2
<1>. QED  BY <1>5, <1>8

-----------------------------------------------------------------------------
(***************************************************************************)
(* The inductive invariant                                                 *)
(***************************************************************************)

\* A dialogue as a guest shows it, against the service's.  The service does not
\* make a dialogue active when it offers choices, and the guests do.
Mirrors(v, d) ==
    /\ v.dialogue_id = d.dialogue_id /\ v.npc = d.npc /\ v.speaker = d.speaker
    /\ Ids(v.choices) = Ids(d.choices)
    /\ d.active => v.active

ShowsQuest(v, q) ==
    /\ v.loaded /\ v.quest_id = q.quest_id /\ v.stage = q.stage
    /\ Ids(v.objectives) = Ids(q.objectives)

\* x was current before or is now: quest 0 may be replaced, no other may.
NotPast(x, q) ==
    q.loaded /\ x.quest_id \in {0, q.quest_id} /\ (x.quest_id = q.quest_id => x.stage <= q.stage)

\* The stages a guest shows and will show, in the order it will show them.
Ascending(v, w) ==
    /\ \A i, j \in 1 .. Len(w) :
          i < j /\ w[i].kind = "quest" /\ w[j].kind = "quest" /\ w[i].quest_id = w[j].quest_id
          => w[i].stage <= w[j].stage
    /\ \A i \in 1 .. Len(w) :
          v.loaded /\ w[i].kind = "quest" /\ w[i].quest_id = v.quest_id => v.stage <= w[i].stage

Known(v, w, q) ==
    /\ v.loaded => NotPast(v, q)
    /\ \A i \in 1 .. Len(w) : w[i].kind = "quest" => NotPast(w[i], q)

StageInv == \A g \in Guests : Ascending(gq[g], chan[g]) /\ Known(gq[g], chan[g], quest)

\* An offer that was answered has been withdrawn.
OfferInv == answers \in {0, 1} /\ (answers = 1 => dialogue.choices = <<>>)

MirrorInv == \A g \in intact : Mirrors(SettledDialogue(g), dialogue)

FreshInv == \A g \in fresh : ShowsQuest(SettledQuest(g), quest)

IInv == TypeOK /\ StageInv /\ OfferInv /\ MirrorInv /\ FreshInv

\* The service and a guest do the same to a dialogue.
LEMMA MirrorLine ==
    ASSUME NEW v \in DialogueStates, NEW e \in DialogueStates, Mirrors(v, e), NEW d, NEW s
    PROVE  Mirrors(WithLine(v, d, s), WithLine(e, d, s))
<1>1. /\ WithLine(v, d, s).dialogue_id = d /\ WithLine(e, d, s).dialogue_id = d
      /\ WithLine(v, d, s).npc = v.npc /\ WithLine(e, d, s).npc = e.npc
      /\ WithLine(v, d, s).speaker = s /\ WithLine(e, d, s).speaker = s
      /\ WithLine(v, d, s).choices = v.choices /\ WithLine(e, d, s).choices = e.choices
      /\ WithLine(v, d, s).active = TRUE
  BY DEF WithLine, DialogueStates
<1>. QED  BY <1>1 DEF Mirrors

LEMMA MirrorClose ==
    ASSUME NEW v \in DialogueStates, NEW e \in DialogueStates, Mirrors(v, e), NEW d
    PROVE  Mirrors(Closed(v, d), Closed(e, d))
<1>1. CASE v.dialogue_id = d
  <2>1. e.dialogue_id = d
    BY <1>1 DEF Mirrors
  <2>2. /\ Closed(v, d).dialogue_id = v.dialogue_id /\ Closed(e, d).dialogue_id = e.dialogue_id
        /\ Closed(v, d).npc = v.npc /\ Closed(e, d).npc = e.npc
        /\ Closed(v, d).speaker = v.speaker /\ Closed(e, d).speaker = e.speaker
        /\ Closed(v, d).choices = <<>> /\ Closed(e, d).choices = <<>>
        /\ Closed(e, d).active = FALSE
    BY <1>1, <2>1 DEF Closed, DialogueStates
  <2>. QED  BY <2>2 DEF Mirrors
<1>2. CASE v.dialogue_id # d
  BY <1>2 DEF Closed, Mirrors
<1>. QED  BY <1>1, <1>2

LEMMA StagesOther ==
    ASSUME NEW v, NEW w \in Seq(Messages), NEW q, NEW m \in Messages, m.kind # "quest",
           Ascending(v, w), Known(v, w, q)
    PROVE  Ascending(v, Append(w, m)) /\ Known(v, Append(w, m), q)
<1> DEFINE u == Append(w, m)
<1>1. /\ Len(u) = Len(w) + 1 /\ u[Len(w) + 1] = m /\ Len(w) \in Nat
      /\ \A i \in 1 .. Len(w) : u[i] = w[i]
  OBVIOUS
<1> HIDE DEF u
<1>2. \A i \in 1 .. Len(u) : i \in 1 .. Len(w) \/ i = Len(w) + 1
  BY <1>1
<1>3. Ascending(v, u)
  BY <1>1, <1>2 DEF Ascending
<1>4. Known(v, u, q)
  BY <1>1, <1>2 DEF Known
<1>. QED  BY <1>3, <1>4 DEF u

\* A quest update the policy lets pass is none before those on their way.
LEMMA StagesNewer ==
    ASSUME NEW v \in QuestStates, NEW w \in Seq(Messages), NEW q \in QuestStates, NEW m \in QuestMsgs,
           Ascending(v, w), Known(v, w, q),
           ~(q.loaded /\ q.quest_id # 0 /\ q.quest_id # m.quest_id),
           ~(q.loaded /\ q.quest_id = m.quest_id /\ m.stage < q.stage),
           NEW r \in QuestStates, r.loaded, r.quest_id = m.quest_id, r.stage = m.stage
    PROVE  Ascending(v, Append(w, m)) /\ Known(v, Append(w, m), r)
<1> DEFINE u == Append(w, m)
<1>0. m \in Messages
  BY DEF Messages
<1>1. /\ Len(u) = Len(w) + 1 /\ u[Len(w) + 1] = m /\ Len(w) \in Nat
      /\ \A i \in 1 .. Len(w) : u[i] = w[i]
  BY <1>0
<1> HIDE DEF u
<1>2. \A i \in 1 .. Len(u) : i \in 1 .. Len(w) \/ i = Len(w) + 1
  BY <1>1
<1>3. ASSUME NEW x, x.quest_id \in Nat, x.stage \in Nat, NotPast(x, q)
      PROVE  NotPast(x, r) /\ (x.quest_id = m.quest_id => x.stage <= m.stage)
  <2>1. m.stage \in Nat /\ m.quest_id \in Nat /\ q.stage \in Nat /\ q.quest_id \in Nat
    BY MirrorAssumption DEF QuestMsgs, QuestStates
  <2>. QED  BY <1>3, <2>1 DEF NotPast
<1>4. v.quest_id \in Nat /\ v.stage \in Nat /\ NotPast(m, r) /\ m.stage \in Nat
  <2>1. v.quest_id \in Nat /\ v.stage \in Nat /\ m.stage \in Nat
    BY MirrorAssumption DEF QuestMsgs, QuestStates
  <2>. QED  BY <2>1 DEF NotPast
<1>5. ASSUME NEW i \in 1 .. Len(w), w[i].kind = "quest"
      PROVE  w[i].quest_id \in Nat /\ w[i].stage \in Nat
  <2>1. w[i] \in QuestMsgs
    BY <1>5, KindsDiffer, ElementOfSeq DEF Messages
  <2>. QED  BY <2>1, MirrorAssumption DEF QuestMsgs
<1>6. Known(v, u, r)
  BY <1>1, <1>2, <1>3, <1>4, <1>5 DEF Known
<1>7. \A i \in 1 .. Len(w) :
         w[i].kind = "quest" /\ w[i].quest_id = m.quest_id => w[i].stage <= m.stage
  BY <1>3, <1>5 DEF Known
<1>8. v.loaded /\ v.quest_id = m.quest_id => v.stage <= m.stage
  BY <1>3, <1>4 DEF Known
<1>9. Ascending(v, u)
  <2>1. ASSUME NEW i \in 1 .. Len(u), NEW j \in 1 .. Len(u), i < j,
               u[i].kind = "quest", u[j].kind = "quest", u[i].quest_id = u[j].quest_id
        PROVE  u[i].stage <= u[j].stage
    <3>1. i \in 1 .. Len(w) /\ u[i] = w[i]
      BY <1>1, <1>2, <2>1
    <3>2. CASE j \in 1 .. Len(w)
      BY <1>1, <2>1, <3>1, <3>2 DEF Ascending
    <3>3. CASE j = Len(w) + 1
      BY <1>1, <1>7, <2>1, <3>1, <3>3
    <3>. QED  BY <1>2, <3>2, <3>3
  <2>2. ASSUME NEW i \in 1 .. Len(u), v.loaded, u[i].kind = "quest", u[i].quest_id = v.quest_id
        PROVE  v.stage <= u[i].stage
    <3>1. CASE i \in 1 .. Len(w)
      BY <1>1, <2>2, <3>1 DEF Ascending
    <3>2. CASE i = Len(w) + 1
      BY <1>1, <1>8, <2>2, <3>2
    <3>. QED  BY <1>2, <3>1, <3>2
  <2>. QED  BY <2>1, <2>2 DEF Ascending
<1>. QED  BY <1>6, <1>9 DEF u

\* The guest shows the first update on its way.
LEMMA StagesTail ==
    ASSUME NEW v, NEW w \in Seq(Messages), NEW q, w # <<>>, Ascending(v, w), Known(v, w, q)
    PROVE  /\ Ascending(ApplyQuest(v, w[1]), Tail(w)) /\ Known(ApplyQuest(v, w[1]), Tail(w), q)
           /\ v.loaded /\ ApplyQuest(v, w[1]).quest_id = v.quest_id /\ v.stage \in Nat
              => v.stage <= ApplyQuest(v, w[1]).stage
<1> DEFINE u == Tail(w)
<1>1. /\ Len(u) = Len(w) - 1 /\ Len(w) \in Nat \ {0}
      /\ \A i \in 1 .. Len(u) : u[i] = w[i + 1]
  OBVIOUS
<1> HIDE DEF u
<1>2. /\ 1 \in 1 .. Len(w)
      /\ \A i \in 1 .. Len(u) : i + 1 \in 1 .. Len(w) /\ 1 < i + 1
      /\ \A i, j \in 1 .. Len(u) : i < j => i + 1 < j + 1
  BY <1>1
<1>3. CASE w[1].kind # "quest"
  <2>1. ApplyQuest(v, w[1]) = v
    BY <1>3 DEF ApplyQuest
  <2>2. Ascending(v, u)
    BY <1>1, <1>2 DEF Ascending
  <2>3. Known(v, u, q)
    BY <1>1, <1>2 DEF Known
  <2>. QED  BY <2>1, <2>2, <2>3 DEF u
<1>4. CASE w[1].kind = "quest"
  <2> DEFINE x == ApplyQuest(v, w[1])
  <2>1. x.loaded = TRUE /\ x.quest_id = w[1].quest_id /\ x.stage = w[1].stage
    BY <1>4 DEF ApplyQuest
  <2> HIDE DEF x
  <2>2. Ascending(x, u)
    <3>1. \A i, j \in 1 .. Len(u) :
             i < j /\ u[i].kind = "quest" /\ u[j].kind = "quest" /\ u[i].quest_id = u[j].quest_id
             => u[i].stage <= u[j].stage
      BY <1>1, <1>2 DEF Ascending
    <3>2. ASSUME NEW i \in 1 .. Len(u), u[i].kind = "quest", u[i].quest_id = w[1].quest_id
          PROVE  w[1].stage <= u[i].stage
      <4>1. u[i] = w[i + 1] /\ i + 1 \in 1 .. Len(w) /\ 1 < i + 1
        BY <1>1, <1>2
      <4>. QED  BY <1>2, <1>4, <3>2, <4>1 DEF Ascending
    <3>. QED  BY <2>1, <3>1, <3>2 DEF Ascending
  <2>3. NotPast(w[1], q)
    BY <1>2, <1>4 DEF Known
  <2>4. Known(x, u, q)
    BY <1>1, <1>2, <2>1, <2>3 DEF Known, NotPast
  <2>5. v.loaded /\ x.quest_id = v.quest_id => v.stage <= x.stage
    BY <1>2, <1>4, <2>1 DEF Ascending
  <2>. QED  BY <2>2, <2>4, <2>5 DEF u, x
<1>. QED  BY <1>3, <1>4

-----------------------------------------------------------------------------
LEMMA InitHolds ==
    Init => IInv
<1> SUFFICES ASSUME Init PROVE IInv
  OBVIOUS
<1>1. <<>> \in Seq(Messages)
  BY EmptySeq
<1>2. TypeOK
  BY <1>1, EmptyRecords DEF Init, TypeOK
<1>3. StageInv
  <2>1. ASSUME NEW g \in Guests PROVE chan[g] = <<>> /\ ~gq[g].loaded
    BY DEF Init, NoQuest
  <2>2. Len(<<>>) = 0
    OBVIOUS
  <2>3. \A i \in 1 .. 0 : FALSE
    OBVIOUS
  <2>. QED  BY <2>1, <2>2, <2>3 DEF StageInv, Ascending, Known
<1>4. OfferInv /\ MirrorInv /\ FreshInv
  BY DEF Init, OfferInv, MirrorInv, FreshInv, NoDialogue
<1>. QED  BY <1>2, <1>3, <1>4 DEF IInv

\* Steps that leave the dialogue, the quest, the guests and their channels alone.
LEMMA QuietHolds ==
    ASSUME IInv, UNCHANGED <<dialogue, quest, connected, chan, guestVars, intact, fresh, answers, reports>>,
           pending' \in Selects, popped' \in Selects, up' \in [Guests -> Selects]
    PROVE  IInv'
<1>1. \A g : SettledDialogue(g)' = SettledDialogue(g) /\ SettledQuest(g)' = SettledQuest(g)
  BY SettledAre DEF guestVars
<1>2. TypeOK'
  BY DEF IInv, TypeOK, guestVars
<1>3. StageInv' /\ OfferInv'
  BY DEF IInv, StageInv, OfferInv, guestVars
<1>4. MirrorInv' /\ FreshInv'
  BY <1>1 DEF IInv, MirrorInv, FreshInv
<1>. QED  BY <1>2, <1>3, <1>4 DEF IInv

\* Every host event that is not about a quest leaves the guests' quests alone.
LEMMA NoQuestHolds ==
    ASSUME TypeOK, StageInv, FreshInv, NEW m \in Messages, m.kind # "quest", Broadcast(<<m>>),
           UNCHANGED <<quest, fresh, guestVars>>
    PROVE  StageInv' /\ FreshInv'
<1>1. ASSUME NEW g \in Guests
      PROVE  Ascending(gq'[g], chan'[g]) /\ Known(gq'[g], chan'[g], quest')
  <2>1. chan[g] \in Seq(Messages) /\ gq' = gq
    BY DEF TypeOK, guestVars
  <2>2. Ascending(gq[g], chan[g]) /\ Known(gq[g], chan[g], quest)
    BY DEF StageInv
  <2>3. Ascending(gq[g], Append(chan[g], m)) /\ Known(gq[g], Append(chan[g], m), quest)
    BY <2>1, <2>2, StagesOther
  <2>4. chan'[g] = chan[g] \/ chan'[g] = Append(chan[g], m)
    BY BroadcastOne
  <2>. QED  BY <2>1, <2>2, <2>3, <2>4
<1>2. \A g \in fresh : SettledQuest(g)' = SettledQuest(g)
  BY BroadcastOne DEF TypeOK, ApplyQuest
<1>3. StageInv'
  BY <1>1 DEF StageInv
<1>4. FreshInv'
  BY <1>2 DEF FreshInv
<1>. QED  BY <1>3, <1>4

LEMMA OpenHolds ==
    ASSUME IInv, NEW d \in Dialogues, NEW a \in Npcs, NEW b \in Npcs, hem_dialogue_open(d, a, b)
    PROVE  IInv'
<1> DEFINE m == [kind |-> "open", dialogue_id |-> d, npc |-> a, speaker |-> b]
           e == [NoDialogue EXCEPT !.active = TRUE, !.dialogue_id = d, !.npc = a, !.speaker = b]
<1>1. /\ m \in Messages /\ m.kind # "quest" /\ m.kind = "open"
      /\ m.dialogue_id = d /\ m.npc = a /\ m.speaker = b
  BY DEF Messages, OpenMsgs
<1>2. e \in DialogueStates
  <2>1. <<>> \in Seq(Choice)
    BY EmptySeq
  <2>. QED  BY <2>1 DEF NoDialogue, DialogueStates
<1>3. /\ dialogue' = e /\ Broadcast(<<m>>) /\ intact' = connected /\ answers' = 0
      /\ UNCHANGED <<quest, pending, popped, connected, up, guestVars, fresh>>
      /\ reports' = reports + 1
  BY DEF hem_dialogue_open, HostReports
<1>4. \A v : ApplyDialogue(v, m) = e
  <2> HIDE DEF m
  <2>. QED  BY <1>1 DEF ApplyDialogue
<1> HIDE DEF m, e
<1>5. TypeOK'
  BY <1>1, <1>2, <1>3, BroadcastOne DEF IInv, TypeOK, guestVars
<1>6. StageInv' /\ FreshInv'
  BY <1>1, <1>3, NoQuestHolds DEF IInv
<1>7. MirrorInv'
  <2>1. \A g \in intact' : SettledDialogue(g)' = e
    BY <1>1, <1>3, <1>4, BroadcastOne DEF IInv
  <2>2. Mirrors(e, e)
    BY DEF Mirrors
  <2>. QED  BY <1>3, <2>1, <2>2 DEF MirrorInv
<1>8. OfferInv'
  BY <1>3 DEF OfferInv
<1>. QED  BY <1>5, <1>6, <1>7, <1>8 DEF IInv

LEMMA LineHolds ==
    ASSUME IInv, NEW d \in Dialogues, NEW a \in Npcs, hem_dialogue_line(d, a)
    PROVE  IInv'
<1> DEFINE m == LineMsg(d, a)
<1>1. m \in Messages /\ m.kind # "quest" /\ m.kind = "line" /\ m.dialogue_id = d /\ m.speaker = a
  BY DEF Messages, LineMsgs, LineMsg
<1>2. /\ dialogue' = WithLine(dialogue, d, a) /\ Broadcast(<<m>>)
      /\ UNCHANGED <<quest, pending, popped, connected, up, guestVars, intact, fresh, answers>>
      /\ reports' = reports + 1
  BY DEF hem_dialogue_line, HostReports
<1> HIDE DEF m
<1>3. dialogue' \in DialogueStates /\ dialogue'.choices = dialogue.choices
  <2>1. dialogue \in DialogueStates
    BY DEF IInv, TypeOK
  <2>. QED  BY <1>2, <2>1, DialogueTyped DEF WithLine, DialogueStates
<1>4. TypeOK'
  BY <1>1, <1>2, <1>3, BroadcastOne DEF IInv, TypeOK, guestVars
<1>5. StageInv' /\ FreshInv'
  BY <1>1, <1>2, NoQuestHolds DEF IInv
<1>6. MirrorInv'
  <2> SUFFICES ASSUME NEW g \in intact PROVE Mirrors(SettledDialogue(g)', dialogue')
    BY <1>2 DEF MirrorInv
  <2>1. /\ SettledDialogue(g) \in DialogueStates
        /\ SettledDialogue(g)' = ApplyDialogue(SettledDialogue(g), m)
    BY <1>1, <1>2, BroadcastOne DEF IInv, TypeOK
  <2>2. \A v : ApplyDialogue(v, m) = WithLine(v, d, a)
    BY <1>1 DEF ApplyDialogue
  <2>3. Mirrors(SettledDialogue(g), dialogue) /\ dialogue \in DialogueStates
    BY DEF IInv, MirrorInv, TypeOK
  <2>. QED  BY <1>2, <2>1, <2>2, <2>3, MirrorLine
<1>7. OfferInv'
  BY <1>2, <1>3 DEF IInv, OfferInv
<1>. QED  BY <1>4, <1>5, <1>6, <1>7 DEF IInv

LEMMA ChoicesHolds ==
    ASSUME IInv, NEW d \in Dialogues, NEW l \in ChoiceLists, hem_dialogue_choices(d, l)
    PROVE  IInv'
<1> DEFINE x == WireList(l, MaxChoices)
           c == Clamp(l, MaxChoices)
           m == [kind |-> "choices", dialogue_id |-> d, choices |-> x]
<1>0. l \in Seq(Choice) /\ MaxChoices \in Nat
  BY MirrorAssumption DEF Choice
<1>1. /\ x \in Seq(Choice) /\ c \in Seq(Choice)
      /\ Clamp(x, MaxChoices) \in Seq(Choice) /\ Ids(Clamp(x, MaxChoices)) = Ids(c)
  BY <1>0, ListsAreTexted, WireListIds, ClampKeeps
<1>2. /\ dialogue' = [dialogue EXCEPT !.dialogue_id = d, !.choices = c]
      /\ Broadcast(<<m>>) /\ answers' = 0
      /\ UNCHANGED <<quest, pending, popped, connected, up, guestVars, intact, fresh>>
      /\ reports' = reports + 1
  BY DEF hem_dialogue_choices, HostReports
<1> HIDE DEF x, c
<1>3. /\ m \in Messages /\ m.kind # "quest" /\ m.kind = "choices"
      /\ m.dialogue_id = d /\ m.choices = x
  BY <1>1 DEF Messages, ChoicesMsgs
<1> HIDE DEF m
<1>4. /\ dialogue' \in DialogueStates /\ dialogue'.choices = c /\ dialogue'.dialogue_id = d
      /\ dialogue'.npc = dialogue.npc /\ dialogue'.speaker = dialogue.speaker
  <2>1. dialogue \in DialogueStates
    BY DEF IInv, TypeOK
  <2>. QED  BY <1>1, <1>2, <2>1 DEF DialogueStates
<1>5. TypeOK'
  BY <1>2, <1>3, <1>4, BroadcastOne DEF IInv, TypeOK, guestVars
<1>6. StageInv' /\ FreshInv'
  BY <1>2, <1>3, NoQuestHolds DEF IInv
<1>7. MirrorInv'
  <2> SUFFICES ASSUME NEW g \in intact PROVE Mirrors(SettledDialogue(g)', dialogue')
    BY <1>2 DEF MirrorInv
  <2> DEFINE v == SettledDialogue(g)
  <2>1. v \in DialogueStates /\ SettledDialogue(g)' = ApplyDialogue(v, m)
    BY <1>2, <1>3, BroadcastOne DEF IInv, TypeOK
  <2>2. Mirrors(v, dialogue)
    BY DEF IInv, MirrorInv
  <2> HIDE DEF v
  <2>3. ApplyDialogue(v, m) = [v EXCEPT !.active = TRUE, !.dialogue_id = d,
                                        !.choices = Clamp(x, MaxChoices)]
    BY <1>3 DEF ApplyDialogue
  <2> DEFINE z == Clamp(x, MaxChoices)
  <2>4. ApplyDialogue(v, m) = [v EXCEPT !.active = TRUE, !.dialogue_id = d, !.choices = z]
        /\ Ids(z) = Ids(c)
    BY <1>1, <2>3
  <2> HIDE DEF z
  <2> DEFINE u == ApplyDialogue(v, m)
  <2>5. /\ u.active = TRUE /\ u.dialogue_id = d /\ u.choices = z
        /\ u.npc = v.npc /\ u.speaker = v.speaker
    BY <2>1, <2>4 DEF DialogueStates
  <2> HIDE DEF u
  <2>6. Mirrors(u, dialogue')
    BY <1>4, <2>2, <2>4, <2>5 DEF Mirrors
  <2>. QED  BY <2>1, <2>6 DEF u
<1>8. OfferInv'
  BY <1>2 DEF OfferInv
<1>. QED  BY <1>5, <1>6, <1>7, <1>8 DEF IInv

LEMMA CloseHolds ==
    ASSUME IInv, NEW d \in Dialogues, hem_dialogue_close(d)
    PROVE  IInv'
<1> DEFINE m == CloseMsg(d)
<1>1. m \in Messages /\ m.kind # "quest" /\ m.kind = "close" /\ m.dialogue_id = d
  BY DEF Messages, CloseMsgs, CloseMsg
<1>2. /\ dialogue' = Closed(dialogue, d) /\ Broadcast(<<m>>)
      /\ UNCHANGED <<quest, pending, popped, connected, up, guestVars, intact, fresh, answers>>
      /\ reports' = reports + 1
  BY DEF hem_dialogue_close, HostReports
<1> HIDE DEF m
<1>3. /\ dialogue' \in DialogueStates
      /\ dialogue'.choices = dialogue.choices \/ dialogue'.choices = <<>>
  <2>1. dialogue \in DialogueStates
    BY DEF IInv, TypeOK
  <2>. QED  BY <1>2, <2>1, DialogueTyped DEF Closed, DialogueStates
<1>4. TypeOK'
  BY <1>1, <1>2, <1>3, BroadcastOne DEF IInv, TypeOK, guestVars
<1>5. StageInv' /\ FreshInv'
  BY <1>1, <1>2, NoQuestHolds DEF IInv
<1>6. MirrorInv'
  <2> SUFFICES ASSUME NEW g \in intact PROVE Mirrors(SettledDialogue(g)', dialogue')
    BY <1>2 DEF MirrorInv
  <2>1. /\ SettledDialogue(g) \in DialogueStates
        /\ SettledDialogue(g)' = ApplyDialogue(SettledDialogue(g), m)
    BY <1>1, <1>2, BroadcastOne DEF IInv, TypeOK
  <2>2. \A v : ApplyDialogue(v, m) = Closed(v, d)
    BY <1>1 DEF ApplyDialogue
  <2>3. Mirrors(SettledDialogue(g), dialogue) /\ dialogue \in DialogueStates
    BY DEF IInv, MirrorInv, TypeOK
  <2>. QED  BY <1>2, <2>1, <2>2, <2>3, MirrorClose
<1>7. OfferInv'
  BY <1>2, <1>3 DEF IInv, OfferInv
<1>. QED  BY <1>4, <1>5, <1>6, <1>7 DEF IInv

LEMMA DeathHolds ==
    ASSUME IInv, NEW a \in Npcs, ActorDies(a)
    PROVE  IInv'
<1> DEFINE m == [kind |-> "death", actor |-> a]
<1>1. m \in Messages /\ m.kind # "quest" /\ m.kind = "death" /\ m.actor = a
  BY DEF Messages, DeathMsgs
<1>2. /\ Broadcast(<<m>>) /\ reports' = reports + 1
      /\ UNCHANGED <<service, connected, up, guestVars, fresh, answers>>
      /\ intact' = IF a \in {dialogue.npc, dialogue.speaker} THEN {} ELSE intact
  BY DEF ActorDies, HostReports
<1> HIDE DEF m
<1>3. TypeOK'
  BY <1>1, <1>2, BroadcastOne DEF IInv, TypeOK, guestVars, service
<1>4. StageInv' /\ FreshInv'
  BY <1>1, <1>2, NoQuestHolds DEF IInv, service
<1>5. MirrorInv'
  <2> SUFFICES ASSUME NEW g \in intact'  PROVE Mirrors(SettledDialogue(g)', dialogue')
    BY DEF MirrorInv
  <2>1. a # dialogue.npc /\ a # dialogue.speaker /\ g \in intact
    BY <1>2
  <2>2. Mirrors(SettledDialogue(g), dialogue)
    BY <2>1 DEF IInv, MirrorInv
  <2>3. SettledDialogue(g)' = ApplyDialogue(SettledDialogue(g), m)
    BY <1>1, <1>2, <2>1, BroadcastOne DEF IInv, TypeOK
  <2>4. ApplyDialogue(SettledDialogue(g), m) = SettledDialogue(g)
    BY <1>1, <2>1, <2>2 DEF ApplyDialogue, Interrupted, Mirrors
  <2>. QED  BY <1>2, <2>2, <2>3, <2>4 DEF service
<1>6. OfferInv'
  BY <1>2 DEF IInv, OfferInv, service
<1>. QED  BY <1>3, <1>4, <1>5, <1>6 DEF IInv

LEMMA QuestHolds ==
    ASSUME IInv, NEW id \in QuestIds, NEW s \in Stages, NEW l \in ObjectiveLists,
           hem_quest_update(id, s, l)
    PROVE  IInv'
<1> DEFINE x == WireList(l, MaxObjectives)
           c == Clamp(l, MaxObjectives)
           m == [kind |-> "quest", quest_id |-> id, stage |-> s, objectives |-> x]
           q == [loaded |-> TRUE, quest_id |-> id, stage |-> s, objectives |-> c]
<1>0. l \in Seq(Objective) /\ MaxObjectives \in Nat /\ id \in Nat /\ s \in Nat
  BY MirrorAssumption DEF Objective
<1>1. /\ x \in Seq(Objective) /\ c \in Seq(Objective)
      /\ Clamp(x, MaxObjectives) \in Seq(Objective) /\ Ids(Clamp(x, MaxObjectives)) = Ids(c)
  BY <1>0, ListsAreTexted, WireListIds, ClampKeeps
<1>2. /\ quest' = q /\ Broadcast(<<m>>) /\ fresh' = connected
      /\ UNCHANGED <<dialogue, pending, popped, connected, up, guestVars, intact, answers>>
      /\ reports' = reports + 1
  BY DEF hem_quest_update, HostReports
<1>3. /\ ~(quest.loaded /\ quest.quest_id # 0 /\ quest.quest_id # id)
      /\ ~(quest.loaded /\ quest.quest_id = id /\ s < quest.stage)
  BY DEF hem_quest_update, qmp_validate_update
<1> HIDE DEF x, c
<1>4. /\ m \in QuestMsgs /\ m \in Messages /\ m.kind = "quest" /\ m.quest_id = id /\ m.stage = s
      /\ m.objectives = x
  BY <1>1 DEF Messages, QuestMsgs
<1>5. q \in QuestStates /\ q.loaded /\ q.quest_id = id /\ q.stage = s /\ q.objectives = c
  BY <1>0, <1>1 DEF QuestStates
<1> HIDE DEF m, q
<1>6. TypeOK'
  BY <1>2, <1>4, <1>5, BroadcastOne DEF IInv, TypeOK, guestVars
<1>7. StageInv'
  <2> SUFFICES ASSUME NEW g \in Guests
               PROVE  Ascending(gq'[g], chan'[g]) /\ Known(gq'[g], chan'[g], quest')
    BY DEF StageInv
  <2>1. /\ chan[g] \in Seq(Messages) /\ gq[g] \in QuestStates /\ quest \in QuestStates
        /\ gq'[g] = gq[g]
    BY <1>2 DEF IInv, TypeOK, guestVars
  <2>2. Ascending(gq[g], chan[g]) /\ Known(gq[g], chan[g], quest)
    BY DEF IInv, StageInv
  <2>3. Ascending(gq[g], Append(chan[g], m)) /\ Known(gq[g], Append(chan[g], m), q)
    BY <1>3, <1>4, <1>5, <2>1, <2>2, StagesNewer
  <2>4. Known(gq[g], chan[g], q)
    <3> DEFINE u == Append(chan[g], m)
    <3>1. Len(u) = Len(chan[g]) + 1 /\ Len(chan[g]) \in Nat /\ \A i \in 1 .. Len(chan[g]) : u[i] = chan[g][i]
      BY <1>4, <2>1
    <3>2. Known(gq[g], u, q)
      BY <2>3
    <3> HIDE DEF u
    <3>3. 1 .. Len(chan[g]) \subseteq 1 .. Len(u)
      BY <3>1
    <3>. QED  BY <3>1, <3>2, <3>3 DEF Known
  <2>5. chan'[g] = chan[g] \/ chan'[g] = Append(chan[g], m)
    BY <1>2, <1>4, BroadcastOne DEF IInv
  <2>. QED  BY <1>2, <2>1, <2>2, <2>3, <2>4, <2>5
<1>8. MirrorInv'
  <2>1. \A g \in intact : SettledDialogue(g)' = SettledDialogue(g)
    BY <1>2, <1>4, BroadcastOne DEF IInv, TypeOK, ApplyDialogue
  <2>. QED  BY <1>2, <2>1 DEF IInv, MirrorInv
<1>9. FreshInv'
  <2> SUFFICES ASSUME NEW g \in connected PROVE ShowsQuest(SettledQuest(g)', q)
    BY <1>2 DEF FreshInv
  <2> DEFINE z == Clamp(x, MaxObjectives)
  <2>1. SettledQuest(g)' = [loaded |-> TRUE, quest_id |-> id, stage |-> s, objectives |-> z]
    BY <1>2, <1>4, BroadcastOne DEF IInv, ApplyQuest
  <2>2. Ids(z) = Ids(c)
    BY <1>1
  <2> HIDE DEF z
  <2>. QED  BY <1>5, <2>1, <2>2 DEF ShowsQuest
<1>10. OfferInv'
  BY <1>2 DEF IInv, OfferInv
<1>. QED  BY <1>6, <1>7, <1>8, <1>9, <1>10 DEF IInv

LEMMA SelectionHolds ==
    ASSUME IInv, hem_apply_guest_dialogue_select
    PROVE  IInv'
<1>0. popped' = NoSelect /\ NoSelect \in Selects
  BY EmptyRecords DEF hem_apply_guest_dialogue_select
<1>1. CASE ~dsp_validate_selection(popped)
  BY <1>0, <1>1, QuietHolds DEF hem_apply_guest_dialogue_select, IInv, TypeOK
<1>2. CASE dsp_validate_selection(popped)
  <2> DEFINE d == dialogue.dialogue_id
             a == dialogue.speaker
             m == LineMsg(d, a)
             n == CloseMsg(d)
             b == [dialogue EXCEPT !.choices = <<>>]
             e == WithLine(b, d, a)
  <2>1. /\ dialogue' = Closed(e, d) /\ Broadcast(<<m, n>>) /\ answers' = answers + 1
        /\ UNCHANGED <<quest, pending, connected, up, guestVars, intact, fresh, reports>>
    BY <1>2 DEF hem_apply_guest_dialogue_select
  <2>2. dialogue \in DialogueStates /\ d \in Dialogues \cup {0} /\ a \in Npcs \cup {0}
    BY DEF IInv, TypeOK, DialogueStates
  <2>3. m \in Messages /\ m.kind = "line" /\ m.dialogue_id = d /\ m.speaker = a
    BY <2>2 DEF Messages, LineMsgs, LineMsg
  <2>4. n \in Messages /\ n.kind = "close" /\ n.dialogue_id = d
    BY <2>2 DEF Messages, CloseMsgs, CloseMsg
  <2>5. b \in DialogueStates /\ b.npc = dialogue.npc
    <3>1. <<>> \in Seq(Choice)
      BY EmptySeq
    <3>. QED  BY <2>2, <3>1 DEF DialogueStates
  <2>6. e \in DialogueStates /\ e.npc = dialogue.npc /\ e.speaker = a /\ e.dialogue_id = d
    <3> HIDE DEF b, d, a
    <3>1. e \in DialogueStates
      BY <2>2, <2>5, DialogueTyped
    <3>. QED  BY <2>5, <3>1 DEF WithLine, DialogueStates
  <2> HIDE DEF e, b, m, n
  <2>7. /\ dialogue' \in DialogueStates /\ dialogue'.choices = <<>> /\ dialogue'.active = FALSE
        /\ dialogue'.npc = dialogue.npc /\ dialogue'.speaker = a /\ dialogue'.dialogue_id = d
    <3> HIDE DEF d, a
    <3>1. dialogue' \in DialogueStates
      BY <2>1, <2>6, DialogueTyped
    <3>. QED  BY <2>1, <2>6, <3>1 DEF Closed, DialogueStates
  <2>8. TypeOK'
    <3>1. chan' \in [Guests -> Seq(Messages)]
      BY <2>1, <2>3, <2>4, BroadcastTwo DEF IInv
    <3>2. answers' \in Nat
      BY <2>1 DEF IInv, TypeOK
    <3>. QED  BY <1>0, <2>1, <2>7, <3>1, <3>2 DEF IInv, TypeOK, guestVars
  <2>9. answers = 0
    <3>1. dialogue.choices # <<>>
      <4>1. PICK i \in DOMAIN dialogue.choices : dialogue.choices[i].choice_id = popped.choice_id
        BY <1>2 DEF dsp_validate_selection
      <4>. QED  BY <4>1
    <3>. QED  BY <3>1 DEF IInv, OfferInv
  <2>10. OfferInv'
    BY <2>1, <2>7, <2>9 DEF OfferInv
  <2>11. ASSUME NEW g \in Guests
         PROVE  Ascending(gq'[g], chan'[g]) /\ Known(gq'[g], chan'[g], quest')
    <3> DEFINE w == Append(chan[g], m)
    <3>1. chan[g] \in Seq(Messages) /\ gq' = gq /\ quest' = quest
      BY <2>1 DEF IInv, TypeOK, guestVars
    <3>2. Ascending(gq[g], chan[g]) /\ Known(gq[g], chan[g], quest)
      BY DEF IInv, StageInv
    <3>3. w \in Seq(Messages) /\ Ascending(gq[g], w) /\ Known(gq[g], w, quest)
      BY <2>3, <3>1, <3>2, StagesOther
    <3>4. chan'[g] = chan[g] \/ chan'[g] = Append(w, n)
      BY <2>1, <2>3, <2>4, BroadcastTwo DEF IInv
    <3> HIDE DEF w
    <3>5. Ascending(gq[g], Append(w, n)) /\ Known(gq[g], Append(w, n), quest)
      BY <2>4, <3>3, StagesOther
    <3>. QED  BY <3>1, <3>2, <3>4, <3>5
  <2>12. StageInv'
    BY <2>11 DEF StageInv
  <2>13. FreshInv'
    <3>1. \A g \in fresh : SettledQuest(g)' = SettledQuest(g)
      BY <2>1, <2>3, <2>4, BroadcastTwo DEF IInv, TypeOK, ApplyQuest
    <3>. QED  BY <2>1, <3>1 DEF IInv, FreshInv
  <2>14. MirrorInv'
    <3> SUFFICES ASSUME NEW g \in intact PROVE Mirrors(SettledDialogue(g)', dialogue')
      BY <2>1 DEF MirrorInv
    <3> DEFINE v == SettledDialogue(g)
               x == WithLine(v, d, a)
               y == Closed(x, d)
    <3>1. v \in DialogueStates /\ SettledDialogue(g)' = ApplyDialogue(ApplyDialogue(v, m), n)
      BY <2>1, <2>3, <2>4, BroadcastTwo DEF IInv, TypeOK
    <3>2. Mirrors(v, dialogue)
      BY DEF IInv, MirrorInv
    <3> HIDE DEF v
    <3>3. SettledDialogue(g)' = y
      BY <2>3, <2>4, <3>1 DEF ApplyDialogue
    <3>4. x \in DialogueStates /\ x.npc = v.npc /\ x.speaker = a /\ x.dialogue_id = d
      <4> HIDE DEF d, a
      <4>1. x \in DialogueStates
        BY <2>2, <3>1, DialogueTyped
      <4>. QED  BY <3>1, <4>1 DEF WithLine, DialogueStates
    <3> HIDE DEF x
    <3>5. y.npc = v.npc /\ y.speaker = a /\ y.dialogue_id = d /\ y.choices = <<>>
      <4> HIDE DEF d, a
      <4>. QED  BY <3>4 DEF Closed, DialogueStates
    <3> HIDE DEF y
    <3>. QED  BY <2>7, <3>2, <3>3, <3>5 DEF Mirrors
  <2>. QED  BY <2>8, <2>10, <2>12, <2>13, <2>14 DEF IInv
<1>. QED  BY <1>1, <1>2

LEMMA SelectStepsHold ==
    ASSUME IInv, NEW g \in Guests, GuestChooses(g) \/ SelectIsLost(g) \/ DialogueSelect(g)
    PROVE  IInv'
<1>0. /\ pending \in Selects /\ popped \in Selects /\ up \in [Guests -> Selects]
      /\ NoSelect \in Selects /\ up[g] \in Selects
  BY EmptyRecords DEF IInv, TypeOK
<1>1. CASE GuestChooses(g)
  <2>1. PICK i \in DOMAIN gd[g].choices :
          up' = [up EXCEPT ![g] = [player |-> g, dialogue_id |-> gd[g].dialogue_id,
                                   choice_id |-> gd[g].choices[i].choice_id]]
    BY <1>1 DEF GuestChooses
  <2> DEFINE s == [player |-> g, dialogue_id |-> gd[g].dialogue_id,
                   choice_id |-> gd[g].choices[i].choice_id]
  <2>2. s \in Selects
    <3>1. gd[g].choices \in Seq(Choice) /\ gd[g].dialogue_id \in Dialogues \cup {0}
      BY DEF IInv, TypeOK, DialogueStates
    <3>2. gd[g].choices[i] \in Choice
      BY <3>1
    <3>3. gd[g].choices[i].choice_id \in Nat
      BY <3>2 DEF Choice
    <3>. QED  BY <3>1, <3>3 DEF Selects
  <2>3. up' = [up EXCEPT ![g] = s]
    BY <2>1
  <2> HIDE DEF s
  <2>4. up' \in [Guests -> Selects]
    BY <1>0, <2>2, <2>3
  <2>. QED  BY <1>0, <1>1, <2>4, QuietHolds DEF GuestChooses, service
<1>2. CASE SelectIsLost(g)
  <2>1. up' \in [Guests -> Selects]
    BY <1>0, <1>2 DEF SelectIsLost
  <2>. QED  BY <1>0, <1>2, <2>1, QuietHolds DEF SelectIsLost, service
<1>3. CASE DialogueSelect(g)
  <2>1. up' \in [Guests -> Selects] /\ pending' \in Selects
    BY <1>0, <1>3 DEF DialogueSelect
  <2>. QED  BY <1>0, <1>3, <2>1, QuietHolds DEF DialogueSelect
<1>. QED  BY <1>1, <1>2, <1>3

LEMMA PopHolds ==
    ASSUME IInv, tl_try_pop_dialogue_select
    PROVE  IInv'
<1>1. pending \in Selects /\ up \in [Guests -> Selects] /\ NoSelect \in Selects
  BY EmptyRecords DEF IInv, TypeOK
<1>. QED  BY <1>1, QuietHolds DEF tl_try_pop_dialogue_select

LEMMA DeliverHolds ==
    ASSUME IInv, NEW g \in Guests, Deliver(g)
    PROVE  IInv'
<1>0. TypeOK
  BY DEF IInv
<1>1. UNCHANGED <<service, connected, up, intact, fresh, answers, reports>>
  BY DEF Deliver
<1>2. TypeOK'
  BY <1>0, <1>1, DeliverSettles DEF TypeOK, service
<1>3. MirrorInv' /\ FreshInv'
  <2>1. \A h \in Guests : SettledDialogue(h)' = SettledDialogue(h) /\ SettledQuest(h)' = SettledQuest(h)
    BY <1>0, DeliverSettles
  <2>2. intact \subseteq Guests /\ fresh \subseteq Guests
    BY <1>0 DEF TypeOK
  <2>. QED  BY <1>1, <2>1, <2>2 DEF IInv, MirrorInv, FreshInv, service
<1>4. StageInv'
  <2> SUFFICES ASSUME NEW h \in Guests
               PROVE  Ascending(gq'[h], chan'[h]) /\ Known(gq'[h], chan'[h], quest')
    BY DEF StageInv
  <2>1. Ascending(gq[h], chan[h]) /\ Known(gq[h], chan[h], quest) /\ quest' = quest
    BY <1>1 DEF IInv, StageInv, service
  <2>2. CASE h # g
    BY <1>0, <2>1, <2>2 DEF Deliver, TypeOK
  <2>3. CASE h = g
    <3>1. chan[h] \in Seq(Messages) /\ chan[h] # <<>> /\ Head(chan[h]) = chan[h][1]
      BY <1>0, <2>3 DEF Deliver, TypeOK
    <3>2. gq'[h] = ApplyQuest(gq[h], chan[h][1]) /\ chan'[h] = Tail(chan[h])
      BY <1>0, <2>3, <3>1 DEF Deliver, TypeOK
    <3>. QED  BY <2>1, <3>1, <3>2, StagesTail
  <2>. QED  BY <2>2, <2>3
<1>5. OfferInv'
  BY <1>1 DEF IInv, OfferInv, service
<1>. QED  BY <1>2, <1>3, <1>4, <1>5 DEF IInv

LEMMA MembershipHolds ==
    ASSUME IInv, NEW g \in Guests, Join(g) \/ Leave(g)
    PROVE  IInv'
<1>0. TypeOK /\ StageInv /\ OfferInv /\ MirrorInv /\ FreshInv
  BY DEF IInv
<1>1. CASE Join(g)
  <2>1. /\ g \notin connected /\ connected' = connected \union {g}
        /\ gd' = [gd EXCEPT ![g] = NoDialogue] /\ gq' = [gq EXCEPT ![g] = NoQuest]
        /\ UNCHANGED <<service, chan, up, intact, fresh, answers, reports>>
    BY <1>1 DEF Join
  <2>2. \A h \in Guests \ {g} : gd'[h] = gd[h] /\ gq'[h] = gq[h]
    BY <1>0, <2>1 DEF TypeOK
  <2>3. TypeOK'
    BY <1>0, <2>1, EmptyRecords DEF TypeOK, service
  <2>4. g \notin intact /\ g \notin fresh /\ intact \subseteq Guests /\ fresh \subseteq Guests
    BY <1>0, <2>1 DEF TypeOK
  <2>5. /\ \A h \in intact : SettledDialogue(h)' = SettledDialogue(h)
        /\ \A h \in fresh : SettledQuest(h)' = SettledQuest(h)
    BY <2>1, <2>2, <2>4, SettledAre
  <2>6. MirrorInv' /\ FreshInv'
    BY <1>0, <2>1, <2>5 DEF MirrorInv, FreshInv, service
  <2>7. StageInv'
    <3>1. gq'[g].loaded = FALSE
      BY <1>0, <2>1 DEF TypeOK, NoQuest
    <3>2. Ascending(gq'[g], chan[g]) /\ Known(gq'[g], chan[g], quest)
      BY <1>0, <3>1 DEF StageInv, Ascending, Known
    <3>. QED  BY <1>0, <2>1, <2>2, <3>2 DEF StageInv, service
  <2>8. OfferInv'
    BY <1>0, <2>1 DEF OfferInv, service
  <2>. QED  BY <2>3, <2>6, <2>7, <2>8 DEF IInv
<1>2. CASE Leave(g)
  <2>1. /\ connected' = connected \ {g} /\ chan' = [chan EXCEPT ![g] = <<>>]
        /\ up' = [up EXCEPT ![g] = NoSelect] /\ intact' = intact \ {g} /\ fresh' = fresh \ {g}
        /\ UNCHANGED <<service, guestVars, answers, reports>>
    BY <1>2 DEF Leave
  <2>2. <<>> \in Seq(Messages)
    BY EmptySeq
  <2>3. TypeOK'
    BY <1>0, <2>1, <2>2, EmptyRecords DEF TypeOK, service, guestVars
  <2>4. /\ chan'[g] = <<>> /\ gq' = gq /\ gd' = gd
        /\ \A h \in Guests \ {g} : chan'[h] = chan[h]
    BY <1>0, <2>1 DEF TypeOK, guestVars
  <2>5. intact' \subseteq Guests \ {g} /\ fresh' \subseteq Guests \ {g}
    BY <1>0, <2>1 DEF TypeOK
  <2>6. /\ \A h \in intact' : SettledDialogue(h)' = SettledDialogue(h)
        /\ \A h \in fresh' : SettledQuest(h)' = SettledQuest(h)
    BY <2>4, <2>5, SettledAre
  <2>7. MirrorInv' /\ FreshInv'
    BY <1>0, <2>1, <2>6 DEF MirrorInv, FreshInv, service
  <2>8. StageInv'
    <3>1. Known(gq[g], <<>>, quest) /\ Ascending(gq[g], <<>>)
      <4>1. Len(<<>>) = 0 /\ \A i \in 1 .. 0 : FALSE
        OBVIOUS
      <4>. QED  BY <1>0, <4>1 DEF StageInv, Ascending, Known
    <3>. QED  BY <1>0, <2>1, <2>4, <3>1 DEF StageInv, service
  <2>9. OfferInv'
    BY <1>0, <2>1 DEF OfferInv, service
  <2>. QED  BY <2>3, <2>7, <2>8, <2>9 DEF IInv
<1>. QED  BY <1>1, <1>2

LEMMA StepHolds ==
    IInv /\ [Next]_vars => IInv'
<1> SUFFICES ASSUME IInv, [Next]_vars PROVE IInv'
  OBVIOUS
<1>1. CASE UNCHANGED vars
  BY <1>1, QuietHolds DEF vars, service, IInv, TypeOK
<1>2. CASE Next
  BY <1>2, OpenHolds, LineHolds, ChoicesHolds, CloseHolds, QuestHolds, DeathHolds,
     SelectionHolds, PopHolds, SelectStepsHold, DeliverHolds, MembershipHolds DEF Next
<1>. QED  BY <1>1, <1>2

-----------------------------------------------------------------------------
(***************************************************************************)
(* Theorems                                                                *)
(***************************************************************************)

\* The invariant holds for the whole of host_event_mirror.c and its guests.
THEOREM Invariance ==
    Spec => []IInv
  BY InitHolds, StepHolds, PTL DEF Spec

\* Every record keeps its shape: the lists the service and the guests hold
\* are lists of entries, and only connected guests count as having seen
\* the last opening (intact) or the last quest update (fresh).
THEOREM TypeCorrect ==
    Spec => []TypeOK
<1>1. IInv => TypeOK
  BY DEF IInv
<1>. QED  BY <1>1, Invariance, PTL

\* proxy_set_dialogue_* applied in order makes every guest that saw the opening
\* show the dialogue of hem_dialogue_*.
THEOREM DialogueMirror ==
    Spec => []DialogueIsMirrored
<1>1. IInv => DialogueIsMirrored
  BY DEF IInv, MirrorInv, Mirrors, DialogueIsMirrored
<1>. QED  BY <1>1, Invariance, PTL

\* dsp_validate_selection is asked again when the host applies a selection
\* (hem_apply_guest_dialogue_select), so no offer is answered twice.
THEOREM OneAnswer ==
    Spec => []AnsweredOnce
<1>1. IInv => AnsweredOnce
  BY DEF IInv, OfferInv, AnsweredOnce
<1>. QED  BY <1>1, Invariance, PTL

\* proxy_set_quest_update makes every guest that was sent the last update of
\* hem_quest_update show it.
THEOREM QuestMirrored ==
    Spec => []QuestIsMirrored
<1>1. IInv => QuestIsMirrored
  BY DEF IInv, FreshInv, ShowsQuest, QuestIsMirrored
<1>. QED  BY <1>1, Invariance, PTL

\* qmp_validate_update keeps the stages of every channel in order, so no guest
\* sees a quest go back.
THEOREM StagesOnlyRise ==
    Spec => GuestStageNeverFalls
<1>1. IInv /\ [Next]_vars
        => [\A g \in Guests :
              gq[g].loaded /\ gq'[g].loaded /\ gq'[g].quest_id = gq[g].quest_id
              => gq'[g].stage >= gq[g].stage]_vars
  <2> SUFFICES ASSUME IInv, Next, NEW g \in Guests,
                      gq[g].loaded, gq'[g].loaded, gq'[g].quest_id = gq[g].quest_id
               PROVE  gq'[g].stage >= gq[g].stage
    OBVIOUS
  <2>0. TypeOK /\ gq[g].stage \in Nat
    BY DEF IInv, TypeOK, QuestStates
  <2>1. CASE gq'[g] = gq[g]
    BY <2>0, <2>1
  <2>2. CASE Deliver(g)
    <3>1. chan[g] \in Seq(Messages) /\ chan[g] # <<>> /\ Head(chan[g]) = chan[g][1]
      BY <2>0, <2>2 DEF Deliver, TypeOK
    <3>2. gq'[g] = ApplyQuest(gq[g], chan[g][1])
      BY <2>0, <2>2, <3>1 DEF Deliver, TypeOK
    <3>3. Ascending(gq[g], chan[g]) /\ Known(gq[g], chan[g], quest)
      BY DEF IInv, StageInv
    <3>4. gq[g].stage <= gq'[g].stage
      BY <2>0, <3>1, <3>2, <3>3, StagesTail
    <3>5. gq'[g].stage \in Nat
      BY <2>2, DeliverHolds DEF IInv, TypeOK, QuestStates
    <3>. QED  BY <2>0, <3>4, <3>5
  <2>3. CASE Join(g)
    BY <2>0, <2>3 DEF Join, TypeOK, NoQuest
  <2>4. CASE \E h \in Guests \ {g} : Deliver(h) \/ Join(h)
    <3>1. gq'[g] = gq[g]
      BY <2>0, <2>4 DEF Deliver, Join, TypeOK
    <3>. QED  BY <2>1, <3>1
  <2>5. \/ gq' = gq
        \/ \E h \in Guests : Deliver(h) \/ Join(h)
    BY DEF Next, hem_dialogue_open, hem_dialogue_line, hem_dialogue_choices, hem_dialogue_close,
           hem_quest_update, ActorDies, tl_try_pop_dialogue_select, hem_apply_guest_dialogue_select,
           GuestChooses, SelectIsLost, DialogueSelect, Leave, guestVars
  <2>. QED  BY <2>1, <2>2, <2>3, <2>4, <2>5
<1>. QED  BY <1>1, Invariance, PTL DEF Spec, GuestStageNeverFalls

=============================================================================
