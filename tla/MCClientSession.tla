--------------------------- MODULE MCClientSession ---------------------------
(* Instances of ClientSession for TLC. *)
EXTENDS ClientSession

Line(s, k, v, ok) == [section |-> s, key |-> k, value |-> v, valid |-> ok]

\* A development set-up whose last heartbeat line cannot be parsed.
Dev == <<Line("live_transport", "enabled", 1, TRUE),
         Line("bridge", "heartbeat_interval_ticks", 2, TRUE),
         Line("bridge", "heartbeat_interval_ticks", 0, FALSE)>>

\* "enabled" counts in the section of the transport only.
Off == <<Line("scene_interpolation", "enabled", 1, TRUE)>>

BadHost == <<Line("", "enabled", 1, TRUE), Line("", "host", 0, FALSE)>>

Files(path, lines) == [p \in {path} |-> lines]

\* No file; the environment's file before the others; a good file alone; an
\* address that cannot be parsed.
SomeDisks ==
    {Files("f4mp_live.ini", Dev),
     Files("F4SE/f4mp_live.ini", BadHost),
     [p \in {"F4MP_LIVE_CONFIG", "f4mp_live.ini"} |->
         IF p = "F4MP_LIVE_CONFIG" THEN Off ELSE Dev]}

\* A bound: one on a prompt link, none on a lossy one.
OneIfPrompt == [l \in Links |-> IF l = "prompt" THEN 1 ELSE 0]

=============================================================================
