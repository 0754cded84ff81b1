------------------------------- MODULE MCLint -------------------------------
(***************************************************************************)
(* Every needs graph on three jobs, with a few kinds of jobs, and nets     *)
(* written by hand with what generated ones have not.                      *)
(***************************************************************************)
EXTENDS Onboarding

Jobs == <<"a", "b", "c">>

MCSlug == [j \in {"a", "b", "c", "d", "b-x", "b_x"} |-> IF j = "b-x" THEN "b_x" ELSE j]

NeedLists == {<<>>, <<"a">>, <<"b">>, <<"a", "b">>, <<"b", "c">>, <<"c">>}

Building == [a |-> <<{"checkout"}, {"build", "test"}>>, b |-> <<{"test"}>>, c |-> <<{"publish"}, {"build"}>>]
Reading  == [a |-> <<{"checkout"}>>, b |-> <<{}>>, c |-> <<{"publish"}>>]
Testing  == [a |-> <<{"checkout"}>>, b |-> <<{"test"}, {"checkout"}>>, c |-> <<>>]

Files == {[jobs |-> Jobs, needs |-> n, steps |-> s] :
            n \in [{"a", "b", "c"} -> NeedLists], s \in {Building, Reading, Testing}}

Odd == {
  [jobs |-> <<"a", "b-x", "b_x">>, needs |-> [j \in DOMAIN MCSlug |-> <<>>], steps |-> [j \in DOMAIN MCSlug |-> <<>>]],
  [jobs |-> <<"a", "b">>, needs |-> [a |-> <<>>, b |-> <<"a", "a">>], steps |-> Reading],
  [jobs |-> <<"a", "b">>, needs |-> [a |-> <<>>, b |-> <<"d">>], steps |-> Reading] }

MCWorkflows == Files \cup Odd

Step(id, consumes, produces, binds, refs) ==
  [id |-> id, principal |-> "bot", consumes |-> consumes, produces |-> produces,
   binds |-> binds, refs |-> refs, emits |-> {id}, obliges |-> {}]

P(p) == <<p>>

Base == [places |-> <<P("in"), P("mid"), P("out")>>, carries |-> <<{}, {"x"}, {}>>, tokens |-> <<2, 0, 0>>,
         principals |-> {"bot"}, finals |-> <<P("out")>>,
         transitions |-> <<Step("end", <<P("mid")>>, <<P("out")>>, {}, {"x"}),
                           Step("begin", <<P("in")>>, <<P("mid")>>, {"x"}, {})>>,
         relations |-> {}, once |-> {}, named |-> {}]

With(k, t) == [Base EXCEPT !.transitions = Append(SubSeq(@, 1, k), t)]

ByHand == {
  Base,
  With(2, Step("join", <<P("mid"), P("mid")>>, <<P("mid")>>, {}, {"x"})),
  With(2, Step("loop", <<P("mid")>>, <<P("mid"), P("in")>>, {}, {})),
  With(2, Step("free", <<>>, <<P("mid")>>, {}, {})),
  With(2, Step("ghost", <<P("nowhere")>>, <<P("out")>>, {}, {"x"})),
  With(1, Step("dead", <<P("out")>>, <<P("mid")>>, {"x"}, {})),
  With(0, Step("void", <<>>, <<>>, {}, {})),
  [Base EXCEPT !.carries[1] = {"x"}, !.transitions[2].binds = {}],
  [Base EXCEPT !.carries[1] = {"x"}, !.tokens[1] = 0],
  [Base EXCEPT !.places[3] = P("mid"), !.finals = <<P("gone")>>],
  [Base EXCEPT !.principals = {}, !.once = {P("mid"), P("gone")}, !.named = {"nothing"}, !.finals = <<>>],
  [Base EXCEPT !.once = {P("mid")}, !.relations = {[name |-> "r", from |-> "end", to |-> "gone"]},
               !.transitions[1].obliges = {[effect |-> "end", ty |-> "r", target |-> "begin"],
                                           [effect |-> "end", ty |-> "q", target |-> "begin"]}] }
=============================================================================
