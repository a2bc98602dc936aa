--------------------------------- MODULE Vote ---------------------------------
(***************************************************************************)
(* The risk seat's reply, and the override rule (agents/risk.py): gates     *)
(* decide, and the model can only add vetoes.                               *)
(*                                                                         *)
(* A reply has a status and a text, or no text.  A text is its lines:       *)
(*   risk     names the plan it votes on, this one or another;              *)
(*   order    votes on an order of the plan, under a symbol or none;        *)
(*   overall  votes on the plan;                                            *)
(*   text     is anything else, and joins the reason of the line before.    *)
(* A stock stands for its symbol.                                           *)
(***************************************************************************)
EXTENDS Gates

Replied(text) == [status |-> "replied", text |-> text]

LinesOf(text, kind) == {k \in DOMAIN text : text[k].kind = kind}

(* The lines that vote on order i; one under another's symbol is no vote.   *)
On(text, i) == {k \in LinesOf(text, "order") : text[k].index = i}

Named(text, orders, i) ==
  {k \in On(text, i) : text[k].symbol \in {Null, orders[i].stock}}

(* No ORDER line at all, or a first RISK line naming another plan, vetoes   *)
(* every order.                                                             *)
Readable(text, orders) ==
  /\ \A k \in LinesOf(text, "risk") :
        k = Min(LinesOf(text, "risk")) => text[k].plan = "this"
  /\ DOMAIN orders = {} \/ \E i \in DOMAIN orders : Named(text, orders, i) # {}

(* Mutant: an order's first line decides, whatever a later one says.        *)
VoteOn_First(text, orders, i) ==
  LET named == Named(text, orders, i)
  IN  IF named = {} THEN "none" ELSE text[Min(named)].vote

(* An order's vote: none when it was not voted, was voted under another     *)
(* order's symbol, or was voted both ways.                                  *)
VoteOn(text, orders, i) ==
  LET votes == {text[k].vote : k \in On(text, i)}
  IN  IF Named(text, orders, i) = On(text, i) /\ Cardinality(votes) = 1
      THEN CHOOSE v \in votes : TRUE ELSE "none"

(* The first OVERALL line's vote.  With none, the orders' own stand.        *)
Overall(text) ==
  LET lines == LinesOf(text, "overall")
  IN  IF lines = {} THEN "none" ELSE text[Min(lines)].vote

(* The model approves an order, and does not veto the plan.                 *)
Approves(reply, orders, i) ==
  /\ reply.status = "replied"
  /\ Readable(reply.text, orders)
  /\ VoteOn(reply.text, orders, i) = "approve"
  /\ Overall(reply.text) # "veto"

(* Mutant: the floor is judged on the plan, before the vote (the bug R1).   *)
Decided_BeforeVote(plan, cleared, reply, c) ==
  {i \in cleared : Approves(reply, plan.orders, i)}
    \ Dropped(plan.orders, DOMAIN plan.orders, plan.cash, {}, c)

(* risk.decide: what the gates cleared and the model approved, less the     *)
(* buys the floor drops.                                                    *)
Decided(plan, cleared, reply, c) ==
  LET approved == {i \in cleared : Approves(reply, plan.orders, i)}
  IN  approved \ Dropped(plan.orders, approved, plan.cash, {}, c)

=============================================================================
