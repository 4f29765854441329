---------------------------- MODULE MCSceneProxy ----------------------------
(* Instances of SceneProxy for TLC. *)
EXTENDS SceneProxy

Quarter == <<1, 4>>
Third == <<35, 100>>

=============================================================================
