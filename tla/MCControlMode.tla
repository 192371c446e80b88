--------------------------- MODULE MCControlMode ---------------------------
(* Two panes; one of them writes more than the other. *)
EXTENDS ControlMode, TLC
CONSTANTS p1, p2
MCPanes == {p1, p2}
MCMaxBytes == p1 :> 2 @@ p2 :> 1

\* One pane alone.
MCPane == {p1}
MCPaneBytes == p1 :> 2
=============================================================================
