------------------------------ MODULE MCX11Serve ------------------------------
(* Prompt requestors; requestors of every target while the content is        *)
(* cleared; requestors that give up and transfers that are swept.            *)
EXTENDS X11Serve

Prompt == [lengths |-> {1, 2}, targets |-> {"text"}, clears |-> FALSE, slow |-> FALSE]
Cleared == [lengths |-> {1, 3}, targets |-> {"text", "TARGETS", "TIMESTAMP", "MULTIPLE"},
            clears |-> TRUE, slow |-> FALSE]
Slow == [lengths |-> {1, 3}, targets |-> {"text"}, clears |-> FALSE, slow |-> TRUE]

MCEnvironments == {Prompt, Cleared, Slow}
=============================================================================
