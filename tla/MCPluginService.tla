----------------------------- MODULE MCPluginService -----------------------------
(***************************************************************************)
(* PluginService for TLC: in the directory two plugins of one event and one     *)
(* without, and another plugin that the application adds, of a lower level and  *)
(* without the synchronous interface; and an object that is no plugin.        *)
(***************************************************************************)
EXTENDS PluginService, TLC

CONSTANTS p1, p2, p3, apart1, object, someEvent

Levels == (p1 :> 1 @@ p2 :> 1 @@ p3 :> 0 @@ apart1 :> 0 @@ object :> 0)
Interfaces == (p1 :> Kinds @@ p2 :> Kinds @@ p3 :> {"async", "types"} @@ apart1 :> Kinds @@ object :> {"types"})
EventCodes == (p1 :> someEvent @@ p2 :> someEvent @@ p3 :> someEvent @@ apart1 :> NoEvent)
Lists == {<<>>, <<object>>, <<p3, object, p1>>}
===============================================================================
