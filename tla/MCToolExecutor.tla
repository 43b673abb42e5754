--------------------------- MODULE MCToolExecutor ---------------------------
(***************************************************************************)
(* ToolExecutor on every plan of at most two steps over three ids, with    *)
(* duplicate ids, unknown, self and circular dependencies among them, and  *)
(* on every plan of three steps with distinct ids.                         *)
(***************************************************************************)
EXTENDS ToolExecutor

MCIds == {"s1", "s2", "s3"}
MCTools == {"ta", "tb"}

Steps(ids, tool) == [id : ids, tool : {tool}, deps : SUBSET MCIds]

MCPlans ==
  {<<>>}
    \cup {<<s>> : s \in Steps(MCIds, "ta")}
    \cup {<<s, t>> : s \in Steps(MCIds, "ta"), t \in Steps(MCIds, "tb")}
    \cup {<<s, t, u>> : s \in Steps({"s1"}, "ta"),
                        t \in Steps({"s2"}, "tb"),
                        u \in Steps({"s3"}, "ta")}

=============================================================================
