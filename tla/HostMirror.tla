----------------------------- MODULE HostMirror -----------------------------
(***************************************************************************)
(* The dialogue and quest mirror: what the host game reports to the        *)
(* service (host_event_mirror.c, quest_mirror_policy.c), the choice a      *)
(* guest sends back (MSG_DIALOGUE_SELECT, dialogue_selection_policy.c,     *)
(* dialogue_progression_policy.c), the datagrams on their way and the      *)
(* dialogue and quest state of each guest's plugin (proxy_runtime.c).      *)
(*                                                                         *)
(* The host may call the hem_ functions in any order.  The network keeps   *)
(* order towards a guest and may lose a guest's selection.  Spoken lines   *)
(* and close reasons carry no control and are left out; choice texts are   *)
(* kept, because the encoder finds them by pointer arithmetic.             *)
(***************************************************************************)
EXTENDS Integers, Sequences, SequencesExt, FiniteSets

CONSTANTS
    Guests,          \* player ids
    Dialogues,       \* dialogue ids
    Npcs,            \* actor net ids that talk
    Texts,           \* texts of choices and objectives
    ChoiceLists,     \* choice lists the host may offer
    MaxChoices,      \* F4MP_MAX_DIALOGUE_CHOICES (12)
    QuestIds,
    Stages,
    ObjectiveLists,  \* objective lists the host may report
    MaxObjectives,   \* F4MP_MAX_QUEST_OBJECTIVES (16)
    QuestMirror,     \* RULE_QUEST_MIRROR_ENABLED is set
    MaxInFlight,     \* bound of the model: datagrams to a guest when a step starts
    MaxReports       \* bound of the model: events the host reports

ASSUME MirrorAssumption ==
    /\ 0 \notin Guests
    /\ Npcs \subseteq Nat \ {0}
    /\ "" \in Texts
    /\ QuestIds \subseteq Nat
    /\ Stages \subseteq Nat
    /\ ChoiceLists \subseteq Seq([choice_id : Nat, enabled : BOOLEAN, text : Texts])
    /\ ObjectiveLists \subseteq Seq([objective_id : Nat, state : Nat, text : Texts])
    /\ MaxChoices \in Nat
    /\ MaxObjectives \in Nat
    /\ QuestMirror \in BOOLEAN
    /\ MaxInFlight \in Nat
    /\ MaxReports \in Nat

VARIABLES
    dialogue,   \* session->dialogue
    quest,      \* session->quest
    pending,    \* ctx->pending_dialogue_select, one slot
    popped,     \* what the host took out of the slot and has not applied yet
    connected,
    chan,       \* chan[g]: datagrams on their way to g
    up,         \* up[g]: g's selection on its way to the service
    gd,         \* g_dialogue of each guest
    gq,         \* g_quest of each guest
    intact,     \* history: guests that saw the last opening and no death in it
    fresh,      \* history: guests that were sent the last quest update
    answers,    \* history: selections that advanced the current offer
    reports     \* bound: events the host has reported

service == <<dialogue, quest, pending, popped>>
guestVars == <<gd, gq>>
vars == <<service, connected, chan, up, guestVars, intact, fresh, answers, reports>>

-----------------------------------------------------------------------------
(***************************************************************************)
(* State records                                                           *)
(***************************************************************************)

\* SessionDialogueState / ProxyDialogueState; choice_count is the length of
\* choices, and 0 is the id of nobody.
NoDialogue ==
    [active |-> FALSE, dialogue_id |-> 0, npc |-> 0, speaker |-> 0, choices |-> <<>>]

NoQuest ==
    [loaded |-> FALSE, quest_id |-> 0, stage |-> 0, objectives |-> <<>>]

NoSelect == [player |-> 0, dialogue_id |-> 0, choice_id |-> 0]

\* The host keeps the first max entries of a list.
Clamp(list, max) == SubSeq(list, 1, IF Len(list) < max THEN Len(list) ELSE max)

-----------------------------------------------------------------------------
(***************************************************************************)
(* Encoding of lists with texts                                            *)
(***************************************************************************)

\* encode_dialogue_choices_adapter and encode_quest_update_adapter.  The
\* payload struct holds max records and then max text pointers, but the
\* adapter looks for the pointers right behind the n records in use.  Entry i
\* therefore gets the pointer in slot n + i: a zeroed record, read as the empty
\* text, while n + i <= max, and the text of entry n + i - max from there on.
WireList(list, max) ==
    LET l == Clamp(list, max)
        n == Len(l)
    IN  [i \in 1 .. n |->
            [l[i] EXCEPT !.text = IF n + i <= max THEN "" ELSE l[n + i - max].text]]

\* tl_broadcast_*: one datagram to every connected player.
Broadcast(msgs) == chan' = [g \in Guests |-> IF g \in connected THEN chan[g] \o msgs ELSE chan[g]]

Room == \A g \in connected : Len(chan[g]) <= MaxInFlight

\* The host game reports an event (bounded).
HostReports == Room /\ reports < MaxReports /\ reports' = reports + 1

-----------------------------------------------------------------------------
(***************************************************************************)
(* Host events                                                             *)
(***************************************************************************)

hem_dialogue_open(d, npc, speaker) ==
    /\ HostReports
    /\ dialogue' = [NoDialogue EXCEPT !.active = TRUE, !.dialogue_id = d,
                                      !.npc = npc, !.speaker = speaker]
    /\ Broadcast(<<[kind |-> "open", dialogue_id |-> d, npc |-> npc, speaker |-> speaker]>>)
    /\ intact' = connected
    /\ answers' = 0
    /\ UNCHANGED <<quest, pending, popped, connected, up, guestVars, fresh>>

\* The dialogue after a line: a line makes it active.
WithLine(dlg, d, speaker) ==
    [dlg EXCEPT !.active = TRUE, !.dialogue_id = d, !.speaker = speaker]

LineMsg(d, speaker) == [kind |-> "line", dialogue_id |-> d, speaker |-> speaker]

hem_dialogue_line(d, speaker) ==
    /\ HostReports
    /\ dialogue' = WithLine(dialogue, d, speaker)
    /\ Broadcast(<<LineMsg(d, speaker)>>)
    /\ UNCHANGED <<quest, pending, popped, connected, up, guestVars, intact, fresh, answers>>

\* The service does not make the dialogue active here; the guests do.
hem_dialogue_choices(d, list) ==
    /\ HostReports
    /\ dialogue' = [dialogue EXCEPT !.dialogue_id = d, !.choices = Clamp(list, MaxChoices)]
    /\ Broadcast(<<[kind |-> "choices", dialogue_id |-> d,
                    choices |-> WireList(list, MaxChoices)]>>)
    /\ answers' = 0
    /\ UNCHANGED <<quest, pending, popped, connected, up, guestVars, intact, fresh>>

\* A close of another dialogue changes nothing, in the service and in a guest.
Closed(dlg, d) ==
    IF dlg.dialogue_id = d THEN [dlg EXCEPT !.active = FALSE, !.choices = <<>>] ELSE dlg

CloseMsg(d) == [kind |-> "close", dialogue_id |-> d]

\* Mutant: the choices are withdrawn and the dialogue stays active.
hem_dialogue_close_staysActive(d) ==
    /\ HostReports
    /\ dialogue' = [dialogue EXCEPT !.choices = IF dialogue.dialogue_id = d THEN <<>> ELSE @]
    /\ Broadcast(<<CloseMsg(d)>>)
    /\ UNCHANGED <<quest, pending, popped, connected, up, guestVars, intact, fresh, answers>>

hem_dialogue_close(d) ==
    /\ HostReports
    /\ dialogue' = Closed(dialogue, d)
    /\ Broadcast(<<CloseMsg(d)>>)
    /\ UNCHANGED <<quest, pending, popped, connected, up, guestVars, intact, fresh, answers>>

QOBJ_ACTIVE    == 0
QOBJ_COMPLETED == 1
QOBJ_FAILED    == 2

objective_state_valid(s) == s \in {QOBJ_ACTIVE, QOBJ_COMPLETED, QOBJ_FAILED}

objective_transition_valid(old, new) ==
    old = new \/ (old = QOBJ_ACTIVE /\ new \in {QOBJ_COMPLETED, QOBJ_FAILED})

\* The first objective with this id, as the search loop finds it.
FirstObjective(objs, id) ==
    LET S == {j \in DOMAIN objs : objs[j].objective_id = id}
    IN  CHOOSE j \in S : \A k \in S : j <= k

\* Mutant: the stage is not compared.
qmp_validate_update_anyStage(id, stage, objs) ==
    /\ QuestMirror
    /\ Len(objs) <= MaxObjectives
    /\ ~(quest.loaded /\ quest.quest_id # 0 /\ quest.quest_id # id)

\* qmp_validate_update: one quest at a time, no earlier stage, only legal moves
\* of the objectives both the old and the new list name.
qmp_validate_update(id, stage, objs) ==
    LET same == quest.loaded /\ quest.quest_id = id
    IN  /\ QuestMirror
        /\ Len(objs) <= MaxObjectives
        /\ ~(quest.loaded /\ quest.quest_id # 0 /\ quest.quest_id # id)
        /\ ~(same /\ stage < quest.stage)
        /\ \A i \in DOMAIN objs :
            /\ objective_state_valid(objs[i].state)
            /\ same /\ (\E j \in DOMAIN quest.objectives :
                            quest.objectives[j].objective_id = objs[i].objective_id)
               => objective_transition_valid(
                    quest.objectives[FirstObjective(quest.objectives, objs[i].objective_id)].state,
                    objs[i].state)

hem_quest_update(id, stage, objs) ==
    /\ HostReports
    /\ qmp_validate_update(id, stage, objs)
    /\ quest' = [loaded |-> TRUE, quest_id |-> id, stage |-> stage,
                 objectives |-> Clamp(objs, MaxObjectives)]
    /\ Broadcast(<<[kind |-> "quest", quest_id |-> id, stage |-> stage,
                    objectives |-> WireList(objs, MaxObjectives)]>>)
    /\ fresh' = connected
    /\ UNCHANGED <<dialogue, pending, popped, connected, up, guestVars, intact, answers>>

\* A talking actor is killed (tl_broadcast_death): the service leaves its
\* dialogue alone, the guests interrupt theirs.
ActorDies(a) ==
    /\ HostReports
    /\ Broadcast(<<[kind |-> "death", actor |-> a]>>)
    /\ intact' = IF a \in {dialogue.npc, dialogue.speaker} THEN {} ELSE intact
    /\ UNCHANGED <<service, connected, up, guestVars, fresh, answers>>

-----------------------------------------------------------------------------
(***************************************************************************)
(* A guest's selection                                                     *)
(***************************************************************************)

\* The first choice with this id decides.
FirstChoice(list, id) ==
    LET S == {i \in DOMAIN list : list[i].choice_id = id}
    IN  CHOOSE i \in S : \A k \in S : i <= k

dsp_validate_selection(sel) ==
    /\ dialogue.active
    /\ dialogue.dialogue_id = sel.dialogue_id
    /\ \E i \in DOMAIN dialogue.choices : dialogue.choices[i].choice_id = sel.choice_id
    /\ dialogue.choices[FirstChoice(dialogue.choices, sel.choice_id)].enabled

\* The player picks an enabled choice of the dialogue his game shows
\* (the game's dialogue menu is external).
GuestChooses(g) ==
    /\ g \in connected
    /\ up[g] = NoSelect
    /\ gd[g].active
    /\ \E i \in DOMAIN gd[g].choices :
        /\ gd[g].choices[i].enabled
        /\ up' = [up EXCEPT ![g] = [player |-> g, dialogue_id |-> gd[g].dialogue_id,
                                    choice_id |-> gd[g].choices[i].choice_id]]
    /\ UNCHANGED <<service, connected, chan, guestVars, intact, fresh, answers, reports>>

SelectIsLost(g) ==
    /\ up[g] # NoSelect
    /\ up' = [up EXCEPT ![g] = NoSelect]
    /\ UNCHANGED <<service, connected, chan, guestVars, intact, fresh, answers, reports>>

\* tl_handle_envelope, MSG_DIALOGUE_SELECT: an accepted selection takes the
\* slot, over the one that is waiting in it.
DialogueSelect(g) ==
    /\ g \in connected
    /\ up[g] # NoSelect
    /\ pending' = IF dsp_validate_selection(up[g]) THEN up[g] ELSE pending
    /\ up' = [up EXCEPT ![g] = NoSelect]
    /\ UNCHANGED <<dialogue, quest, popped, connected, chan, guestVars, intact, fresh, answers, reports>>

tl_try_pop_dialogue_select ==
    /\ pending # NoSelect
    /\ popped = NoSelect
    /\ popped' = pending
    /\ pending' = NoSelect
    /\ UNCHANGED <<dialogue, quest, connected, chan, up, guestVars, intact, fresh, answers, reports>>

\* Mutant: the choice is echoed and the dialogue stays as it is.
hem_apply_guest_dialogue_select_echoOnly ==
    /\ Room
    /\ popped # NoSelect
    /\ popped' = NoSelect
    /\ dsp_validate_selection(popped)
    /\ Broadcast(<<LineMsg(dialogue.dialogue_id, dialogue.speaker)>>)
    /\ answers' = answers + 1
    /\ UNCHANGED <<dialogue, quest, pending, connected, up, guestVars, intact, fresh, reports>>

\* hem_apply_guest_dialogue_select: the selection is validated again; if it
\* still holds dpp_apply_selection withdraws the choices, and the echoed line
\* and the close are broadcast.
hem_apply_guest_dialogue_select ==
    /\ Room
    /\ popped # NoSelect
    /\ popped' = NoSelect
    /\ IF dsp_validate_selection(popped)
       THEN LET d == dialogue.dialogue_id
                advanced == WithLine([dialogue EXCEPT !.choices = <<>>], d, dialogue.speaker)
            IN  /\ dialogue' = Closed(advanced, d)
                /\ Broadcast(<<LineMsg(d, dialogue.speaker), CloseMsg(d)>>)
                /\ answers' = answers + 1
       ELSE UNCHANGED <<dialogue, chan, answers>>
    /\ UNCHANGED <<quest, pending, connected, up, guestVars, intact, fresh, reports>>

-----------------------------------------------------------------------------
(***************************************************************************)
(* Guests                                                                  *)
(***************************************************************************)

\* proxy_set_death_event, the part about the dialogue.
Interrupted(v, a) ==
    IF v.active /\ a \in {v.npc, v.speaker}
    THEN [v EXCEPT !.active = FALSE, !.choices = <<>>] ELSE v

\* proxy_set_dialogue_open, _line, _choices and _close.
ApplyDialogue(v, m) ==
    CASE m.kind = "open"    -> [NoDialogue EXCEPT !.active = TRUE,
                                   !.dialogue_id = m.dialogue_id,
                                   !.npc = m.npc, !.speaker = m.speaker]
      [] m.kind = "line"    -> WithLine(v, m.dialogue_id, m.speaker)
      [] m.kind = "choices" -> [v EXCEPT !.active = TRUE, !.dialogue_id = m.dialogue_id,
                                   !.choices = Clamp(m.choices, MaxChoices)]
      [] m.kind = "close"   -> Closed(v, m.dialogue_id)
      [] m.kind = "death"   -> Interrupted(v, m.actor)
      [] OTHER              -> v

\* Mutant: a stage that is already shown keeps its objectives.
ApplyQuest_sameStageKept(v, m) ==
    IF m.kind # "quest" \/ (v.loaded /\ v.stage = m.stage) THEN v
    ELSE [loaded |-> TRUE, quest_id |-> m.quest_id, stage |-> m.stage,
          objectives |-> Clamp(m.objectives, MaxObjectives)]

\* proxy_set_quest_update.
ApplyQuest(v, m) ==
    IF m.kind # "quest" THEN v
    ELSE [loaded |-> TRUE, quest_id |-> m.quest_id, stage |-> m.stage,
          objectives |-> Clamp(m.objectives, MaxObjectives)]

Deliver(g) ==
    /\ chan[g] # <<>>
    /\ gd' = [gd EXCEPT ![g] = ApplyDialogue(@, Head(chan[g]))]
    /\ gq' = [gq EXCEPT ![g] = ApplyQuest(@, Head(chan[g]))]
    /\ chan' = [chan EXCEPT ![g] = Tail(@)]
    /\ UNCHANGED <<service, connected, up, intact, fresh, answers, reports>>

\* A guest joins with empty proxies (proxy_runtime_init).  tl_send_existing_state
\* tells it nothing about a dialogue or a quest.
Join(g) ==
    /\ g \notin connected
    /\ connected' = connected \union {g}
    /\ gd' = [gd EXCEPT ![g] = NoDialogue]
    /\ gq' = [gq EXCEPT ![g] = NoQuest]
    /\ UNCHANGED <<service, chan, up, intact, fresh, answers, reports>>

\* A guest leaves; what it selected stays with the service.
Leave(g) ==
    /\ g \in connected
    /\ connected' = connected \ {g}
    /\ chan' = [chan EXCEPT ![g] = <<>>]
    /\ up' = [up EXCEPT ![g] = NoSelect]
    /\ intact' = intact \ {g}
    /\ fresh' = fresh \ {g}
    /\ UNCHANGED <<service, guestVars, answers, reports>>

-----------------------------------------------------------------------------
Init ==
    /\ dialogue = NoDialogue
    /\ quest = NoQuest
    /\ pending = NoSelect
    /\ popped = NoSelect
    /\ connected = {}
    /\ chan = [g \in Guests |-> <<>>]
    /\ up = [g \in Guests |-> NoSelect]
    /\ gd = [g \in Guests |-> NoDialogue]
    /\ gq = [g \in Guests |-> NoQuest]
    /\ intact = {}
    /\ fresh = {}
    /\ answers = 0
    /\ reports = 0

Next ==
    \/ \E d \in Dialogues, a, b \in Npcs : hem_dialogue_open(d, a, b)
    \/ \E d \in Dialogues, a \in Npcs : hem_dialogue_line(d, a)
    \/ \E d \in Dialogues, l \in ChoiceLists : hem_dialogue_choices(d, l)
    \/ \E d \in Dialogues : hem_dialogue_close(d)
    \/ \E q \in QuestIds, s \in Stages, l \in ObjectiveLists : hem_quest_update(q, s, l)
    \/ \E a \in Npcs : ActorDies(a)
    \/ tl_try_pop_dialogue_select
    \/ hem_apply_guest_dialogue_select
    \/ \E g \in Guests :
        \/ GuestChooses(g) \/ SelectIsLost(g) \/ DialogueSelect(g)
        \/ Deliver(g) \/ Join(g) \/ Leave(g)

Spec == Init /\ [][Next]_vars

-----------------------------------------------------------------------------
(***************************************************************************)
(* Correctness                                                             *)
(***************************************************************************)

\* What guest g will show once the datagrams in flight have arrived.
SettledDialogue(g) == FoldLeft(ApplyDialogue, gd[g], chan[g])
SettledQuest(g) == FoldLeft(ApplyQuest, gq[g], chan[g])

Ids(list) == [i \in DOMAIN list |-> [list[i] EXCEPT !.text = ""]]

\* hem_dialogue_* against proxy_set_dialogue_*: while a dialogue is active in
\* the service, every guest that saw it open, and in whose game nobody in it
\* died, will show the same dialogue, speaker and choices, in whatever order
\* the host reported lines, choices and closes of this and other dialogues.
DialogueIsMirrored ==
    dialogue.active =>
        \A g \in intact :
            LET v == SettledDialogue(g)
            IN  /\ v.active
                /\ v.dialogue_id = dialogue.dialogue_id
                /\ v.npc = dialogue.npc /\ v.speaker = dialogue.speaker
                /\ Ids(v.choices) = Ids(dialogue.choices)

\* hem_apply_guest_dialogue_select: one offer of choices is answered at most
\* once, though two guests may select while the host has not yet applied the
\* first selection.
AnsweredOnce == answers <= 1

\* hem_quest_update against proxy_set_quest_update: every guest that was sent
\* the last accepted update will show that quest, stage and objectives.
QuestIsMirrored ==
    \A g \in fresh :
        LET v == SettledQuest(g)
        IN  /\ v.loaded /\ v.quest_id = quest.quest_id /\ v.stage = quest.stage
            /\ Ids(v.objectives) = Ids(quest.objectives)

\* qmp_validate_update, seen from a guest: while it stays, the stage of the
\* quest it shows never goes back.
GuestStageNeverFalls ==
    [][\A g \in Guests :
        gq[g].loaded /\ gq'[g].loaded /\ gq'[g].quest_id = gq[g].quest_id
        => gq'[g].stage >= gq[g].stage]_vars

=============================================================================
