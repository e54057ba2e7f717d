----------------------------- MODULE Clipboard -----------------------------
(***************************************************************************)
(* The contract of the Clipboard trait (lib.rs), without threads: a change *)
(* replaces the text, moves the change count on by one and owes one        *)
(* notification to each subscriber of that moment.  A notification carries *)
(* no text, only the count and, for a write of our own, its token; it is   *)
(* delivered once, at any later time, but not after the subscription was   *)
(* dropped.                                                                *)
(***************************************************************************)
EXTENDS Naturals

CONSTANTS
    Texts,   \* texts that can be on the clipboard
    NoText,  \* nothing, or nothing that is text
    Subs     \* subscriptions

\* matches_our_write = None
NoToken == 0

VARIABLES
    text,        \* what is on the clipboard
    count,       \* the change count
    nextToken,   \* the token the next write_text gets
    subscribed,  \* active subscriptions
    due          \* notifications not yet delivered

clipVars == <<text, count, nextToken, subscribed, due>>

Notification == [sub : Subs, count : Nat, token : Nat]

Notify(subs, n, tok) == {[sub |-> s, count |-> n, token |-> tok] : s \in subs}

ClipInit ==
    /\ text = NoText
    /\ count = 0
    /\ nextToken = 1
    /\ subscribed = {}
    /\ due = {}

\* The clipboard changes to x; tok is NoToken or the token of our write.
Change(x, tok) ==
    /\ text' = x
    /\ count' = count + 1
    /\ due' = due \cup Notify(subscribed, count + 1, tok)
    /\ UNCHANGED subscribed

WriteText(x) == Change(x, nextToken) /\ nextToken' = nextToken + 1

\* A clear has no token and leaves no text; another application's write has
\* no token either.
ClearText == Change(NoText, NoToken) /\ UNCHANGED nextToken

OtherWrites(x) == Change(x, NoToken) /\ UNCHANGED nextToken

Deliver(n) ==
    /\ due' = due \ {n}
    /\ UNCHANGED <<text, count, nextToken, subscribed>>

Subscribed(s) ==
    /\ subscribed' = subscribed \cup {s}
    /\ UNCHANGED <<text, count, nextToken, due>>

\* The step is the end of the drop: what is still due is not delivered.
Unsubscribed(s) ==
    /\ subscribed' = subscribed \ {s}
    /\ due' = {n \in due : n.sub # s}
    /\ UNCHANGED <<text, count, nextToken>>

ClipNext ==
    \/ \E x \in Texts : WriteText(x) \/ OtherWrites(x)
    \/ ClearText
    \/ \E n \in due : Deliver(n)
    \/ \E s \in Subs : Subscribed(s) \/ Unsubscribed(s)

ClipSpec == ClipInit /\ [][ClipNext]_clipVars

=============================================================================
