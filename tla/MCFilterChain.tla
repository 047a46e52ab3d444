--------------------------- MODULE MCFilterChain ---------------------------
(* Blocks for FilterChain: every kind of target and of answer, rules that
   apply and rules that do not, jumps forward, backward, in a circle and to a
   chain that is not there, a second block of the same name, and blocks that
   the configuration refuses. *)
EXTENDS FilterChain

T(k) == [kind |-> k, arg |-> ""]
Jump(n) == [kind |-> "jump", arg |-> n]
Other(s) == [kind |-> "other", arg |-> s]
Rule(ms, ts) == [matches |-> ms, targets |-> ts]
Default(t) == [target |-> t]
Block(n, is) == [name |-> n, items |-> is]
Bad == [bad |-> TRUE]

MCBlocks == {
  Block("pre",  <<Rule(<<1, 1>>, <<Jump("sub"), Other(-1)>>), Default(T("write"))>>),
  Block("pre",  <<Rule(<<1, 0>>, <<T("stop")>>), Rule(<<1>>, <<Other(3), T("return")>>),
                  Default(T("stop"))>>),
  Block("pre",  <<Rule(<<1>>, << >>), Default(T("write"))>>),
  Block("sub",  <<Rule(<<-1>>, <<T("stop")>>), Rule(<< >>, <<Other(-1), T("return")>>),
                  Default(T("write"))>>),
  Block("sub",  <<Default(Jump("post")), Default(T("stop")), Default(T("write"))>>),
  Block("sub",  <<Default(T("write")), Bad>>),
  Block("post", <<Rule(<<1>>, <<Jump("gone"), T("write"), Jump("sub")>>),
                  Default(T("return")), Default(T("write"))>>),
  Block("post", <<Rule(<< >>, <<Jump("pre")>>), Default(T("stop")), Default(T("write"))>>) }
=============================================================================
