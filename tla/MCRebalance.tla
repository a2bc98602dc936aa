----------------------------- MODULE MCRebalance -----------------------------
(***************************************************************************)
(* Instances of Rebalance and its page: three stocks, two of which are      *)
(* held, so that a decision sells both to buy the third, or buys what it    *)
(* holds.                                                                   *)
(*                                                                         *)
(* Moving worlds vary what the reports ask for, and every order may be      *)
(* vetoed, and refused for its quote.  The others ask for one small plan,   *)
(* a sale and the buy it helps to pay for, and vary one thing: the reply,   *)
(* the reports, the evidence, the configuration, or the operator's edit.    *)
(***************************************************************************)
EXTENDS Dashboard

Marks3 == <<3, 2, 2>>

SlipsAll == {-1, 0, 1}

KindOf == [trend |-> "direction", macro |-> "direction",
           quality |-> "condition"]

Keys == [algorithm |-> "ed25519", public |-> "fund"]

Config ==
  [keys |-> Keys, approvedAt |-> 0, expires |-> 9, revoked |-> FALSE,
   allowed |-> {Cash} \cup Stocks, maxTrade |-> 6, minOrder |-> 2, floor |-> 3,
   weight |-> 75, turnover |-> 200, quorum |-> 1, age |-> 2, budget |-> 12,
   perToken |-> 2, reserved |-> 1]

(* A price, what the venue asked and its divergence, for each stock; the    *)
(* third stock's session is not a number.                                   *)
FieldsOf ==
  [s \in Stocks |->
     (<<"mark", "price_usd">> :> Mark[s])
       @@ (<<"quote", "venue_price_usd">> :> Mark[s] + 4)
       @@ (<<"corroboration", "divergence_bps">> :> 50 + s)
       @@ (<<"timeline", "friday">> :> 30 + s)
       @@ (<<"session">> :> Null)]

Snap == [id |-> "this", taken |-> 3, marked |-> Stocks, tradeable |-> Stocks,
         fields |-> FieldsOf]

Call(s, word, conf) ==
  [kind |-> "call", stock |-> s, symbol |-> s, word |-> word, conf |-> conf]

Offer(seat, lines) ==
  [seat |-> seat, agent |-> "a1", status |-> "ok",
   report |-> [header |-> [seat |-> seat, agent |-> "a1", snapshot |-> "this"],
               lines |-> lines]]

(* The seeds, and their public halves.                                      *)
PublicOf == ("seed1" :> "fund") @@ ("seed2" :> "other")

Line(name, value) == [name |-> name, value |-> value]

Host ==
  [shell |-> [PATH |-> "bin"],
   dotenv |-> <<Line("", "note"), Line("BANKR_KEY_READ", "read"),
                Line("BANKR_LLM_KEY", "llm"), Line("BANKR_KEY_EXEC", "exec"),
                Line("SIGNING_KEY", "seed1")>>,
   split |-> << >>, named |-> << >>]

Base ==
  [config |-> Config, edits |-> {}, host |-> Host, snap |-> Snap,
   at |-> 4, judged |-> 4, cash |-> 1, hold |-> <<4, 2, 0>>,
   offered |-> {Offer("trend", <<Call(1, "sell", "medium"),
                                 Call(3, "buy", "medium")>>)},
   replies |-> {}, quotes |-> {"ok"}, fresh |-> {"ok"}]

-------------------------------------------------------------------------------
(* What the reports ask for *)

Asks(s, words, confs) ==
  {<< >>} \cup {<<Call(s, w, c)>> : w \in words, c \in confs}

Moving3 ==
  {[Base EXCEPT !.offered = {Offer("trend", a \o b \o d)},
                !.cash = open[1], !.hold = open[2], !.fresh = {"ok", "age"}] :
     a \in Asks(1, {"buy", "sell"}, {"medium", "high"}),
     b \in Asks(2, {"buy", "sell"}, {"medium"}),
     d \in Asks(3, {"buy"}, {"high"}),
     open \in {<<1, <<4, 2, 0>>>>, <<4, <<3, 1, 0>>>>}}

-------------------------------------------------------------------------------
(* The reply *)

Names(p) == [kind |-> "risk", plan |-> p]
On1(symbol, vote) ==
  [kind |-> "order", index |-> 1, symbol |-> symbol, vote |-> vote]
On2(symbol, vote) == [On1(symbol, vote) EXCEPT !.index = 2]
Whole(vote) == [kind |-> "overall", vote |-> vote]

VoteLines ==
  {On1(1, "approve"), On1(3, "approve"), On1(Null, "veto"),
   On2(Null, "approve"), On2(3, "veto"), Whole("approve"), Whole("veto"),
   [kind |-> "order", index |-> 9, symbol |-> Null, vote |-> "approve"]}

Heads == {<< >>, <<Names("this")>>, <<Names("other")>>,
          <<Names("this"), Names("other")>>}

Replying ==
  {[Base EXCEPT !.replies = {r}] :
     r \in {Replied(h \o lines) :
              h \in Heads,
              lines \in UNION {[1 .. n -> VoteLines] : n \in 0 .. 3}}
            \cup {[status |-> "failed", text |-> Null],
                  [status |-> "failed", text |-> <<On1(1, "approve")>>]}}

-------------------------------------------------------------------------------
(* The reports *)

Figure(cites, claims, names) ==
  [kind |-> "figure", cites |-> cites, claims |-> claims, names |-> names]
Cite(stock, path) == [stock |-> stock, path |-> path, says |-> Null]
Plain(v) == [kind |-> "plain", value |-> v]
Bps(v)   == [kind |-> "bps", value |-> v]

Price == Cite(Null, <<"mark", "price_usd">>)
Venue == Cite(Null, <<"venue_price_usd">>)
Gone  == Cite(Null, <<"volume_usd">>)
Divergence == Cite(3, <<"corroboration", "divergence_bps">>)

FigureLines ==
  {Figure(<<Price>>, {Plain(2)}, {}), Figure(<<Venue, Price>>, {Plain(4)}, {}),
   Figure(<<Venue, Price>>, {Plain(8), Plain(200)}, {}),
   Figure(<<Price>>, {Plain(77)}, {}), Figure(<< >>, {Plain(77)}, {}),
   Figure(<<Gone>>, {Plain(77)}, {}), Figure(<<Gone>>, {Plain(33)}, {}),
   Figure(<<Price>>, {Plain(31)}, {1}), Figure(<<Price>>, {Plain(31)}, {}),
   Figure(<<Divergence>>, {Bps(-53)}, {}), Figure(<<Price>>, {Bps(99)}, {}),
   Figure(<<Cite(Null, <<"session">>)>>, {Plain(77)}, {}),
   Figure(<<[Price EXCEPT !.says = 5]>>, {Plain(2)}, {})}

Buy3 == Call(3, "buy", "medium")
Sell1 == Call(1, "sell", "medium")
NoCalls == [kind |-> "nocalls"]
Prose == [kind |-> "prose"]

OddLines ==
  {<<Sell1, Buy3, x>> : x \in FigureLines}
    \cup {<<x, Sell1, Buy3>> : x \in FigureLines}
    \cup {<<Buy3, Prose, x>> : x \in FigureLines}
    \cup {<<NoCalls>>, <<Prose>>, <<NoCalls, Sell1, Buy3>>,
          <<Sell1, [kind |-> "badcall"]>>, <<Buy3, Buy3>>,
          <<Sell1, Call(2, "sell", "low"), Buy3>>,
          <<[Buy3 EXCEPT !.symbol = 1]>>, <<[Buy3 EXCEPT !.word = "caution"]>>,
          <<[Buy3 EXCEPT !.conf = "sure"]>>, <<Sell1, Call(2, "hold", "high")>>}

Headed(header) ==
  {[Offer("trend", <<Sell1, Buy3>>) EXCEPT !.report.header = header]}

Reporting ==
  {[Base EXCEPT !.offered = {Offer("trend", lines)}] : lines \in OddLines}
    \cup {[Base EXCEPT !.offered = Headed(h)] :
            h \in {Null, [seat |-> "macro", agent |-> "a1", snapshot |-> "this"],
                   [seat |-> "trend", agent |-> "a2", snapshot |-> "this"],
                   [seat |-> "trend", agent |-> "a1", snapshot |-> "old"]}}
    \cup {[Base EXCEPT !.offered = {[Offer("trend", <<Sell1, Buy3>>)
                                       EXCEPT !.status = t]}] :
            t \in {"no_call", "failed"}}
    \cup {[Base EXCEPT !.config.quorum = 2,
             !.offered = @ \cup {Offer(seat, <<Call(s, word, "high")>>)}] :
            seat \in {"macro", "quality"}, s \in {1, 3},
            word \in {"buy", "sell", "caution", "proceed"}}

-------------------------------------------------------------------------------
(* The evidence, the configuration and the operator *)

Evidence3 ==
  {[Base EXCEPT !.judged = t, !.at = 2] : t \in {2, 5, 6}}
    \cup {[Base EXCEPT !.judged = 9, !.at = u, !.snap.taken = 8] : u \in {8, 9}}
    \cup {[Base EXCEPT !.snap.marked = Stocks \ {s},
                       !.snap.tradeable = Stocks \ {s}] : s \in Stocks}
    \cup {[Base EXCEPT !.snap.tradeable = Stocks \ {s}] : s \in Stocks}
    \cup {[Base EXCEPT !.snap.fields = [s \in {1, 2} |-> FieldsOf[s]]]}
    \cup {[Base EXCEPT !.quotes = Verdicts, !.fresh = Verdicts]}
    \cup {[Base EXCEPT !.cash = 0, !.hold = <<0, 0, 0>>]}

Nulls ==
  {[Config EXCEPT !.keys = Null], [Config EXCEPT !.approvedAt = Null],
   [Config EXCEPT !.revoked = Null], [Config EXCEPT !.allowed = {}],
   [Config EXCEPT !.maxTrade = Null], [Config EXCEPT !.minOrder = Null],
   [Config EXCEPT !.weight = Null], [Config EXCEPT !.turnover = Null],
   [Config EXCEPT !.quorum = Null], [Config EXCEPT !.age = Null],
   [Config EXCEPT !.budget = Null]}

Tighter ==
  {[Config EXCEPT !.keys.public = "next"], [Config EXCEPT !.expires = 4],
   [Config EXCEPT !.revoked = TRUE], [Config EXCEPT !.allowed = @ \ {3}],
   [Config EXCEPT !.allowed = @ \ {Cash}], [Config EXCEPT !.maxTrade = 4],
   [Config EXCEPT !.maxTrade = 2],
   [Config EXCEPT !.weight = 20], [Config EXCEPT !.turnover = 50],
   [Config EXCEPT !.quorum = 2], [Config EXCEPT !.budget = 2],
   [Config EXCEPT !.perToken = 1, !.budget = 4]}

Floors == {[Config EXCEPT !.floor = f] : f \in {Null, 1, 5, 8}}

Configured ==
  {[Base EXCEPT !.config = c] : c \in Nulls \cup Tighter \cup Floors}

Edited ==
  {[Base EXCEPT !.edits = Nulls \cup Tighter \cup Floors]}
    \cup {[Base EXCEPT !.config = c, !.edits = {Config}] :
            c \in Nulls \cup Tighter \cup Floors}

(* The secrets: the same lines in every place they may be, the spending key *)
(* under the seat's name, a variable that shadows the file's, and no seed.  *)
Hosts ==
  LET also(file, n, v) == Append(file, Line(n, v))
      in(n, v) == {[Host EXCEPT !.dotenv = also(@, n, v)],
                   [Host EXCEPT !.shell = (n :> v) @@ @],
                   [Host EXCEPT !.split = also(Host.dotenv, n, v)],
                   [Host EXCEPT !.split = also(Host.dotenv, n, v),
                                !.named = Host.dotenv],
                   [Host EXCEPT !.named = also(Host.dotenv, n, v)],
                   [Host EXCEPT !.shell = (n :> v) @@ @, !.split = Host.dotenv]}
  IN  in("BANKR_LLM_KEY", "exec") \cup in("BANKR_LLM_KEY", "seed1")
        \cup in("BANKR_LLM_KEY", "") \cup in("BANKR_KEY_READ", "")
        \cup in("BANKR_KEY_EXEC", "llm") \cup in("SIGNING_KEY", "")
        \cup in("SIGNING_KEY", "seed2") \cup in("SIGNING_KEY", "short")

Keyed3 ==
  {[Base EXCEPT !.host = h] : h \in Hosts}
    \cup {[Base EXCEPT !.config.keys.algorithm = "other"]}

AllWorlds ==
  Moving3 \cup Replying \cup Reporting \cup Evidence3 \cup Configured
    \cup Edited \cup Keyed3

-------------------------------------------------------------------------------

(* One position worth exactly two trades at the limit, in an odd number of  *)
(* units.                                                                   *)
MarksSplit == <<2>>

SplitWorlds ==
  {[Base EXCEPT !.cash = 30, !.hold = <<25>>,
                !.config.maxTrade = 25, !.config.floor = 20,
                !.config.weight = 100,
                !.offered = {Offer("trend", <<Call(1, word, conf)>>)}] :
     word \in {"buy", "sell"}, conf \in {"low", "medium", "high"}}

(* A reply cut at the token limit: its status says so, its text is kept.    *)
Truncated ==
  [status |-> "failed",
   text |-> <<On1(Null, "approve"), On2(Null, "approve"), Whole("approve")>>]

TruncatedWorlds ==
  {[Base EXCEPT !.offered = {Offer("trend", <<x, y>>)},
                !.replies = {Truncated}, !.fresh = {"ok", "age"}] :
     x \in {Sell1, Call(1, "sell", "high"), Call(1, "sell", "low")},
     y \in {Buy3, Call(3, "buy", "low"), Call(3, "buy", "high")}}

=============================================================================
