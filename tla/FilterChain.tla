---------------------------- MODULE FilterChain ----------------------------
(***************************************************************************)
(* The filter chains (daemon/filter_chain.c) and their place in the        *)
(* dispatch of a metric family (plugin_dispatch_metric_internal in         *)
(* daemon/plugin.c).                                                       *)
(*                                                                         *)
(* First the <Chain> blocks of the configuration are read one by one into  *)
(* the list chain_list_head; then the daemon either gives up or dispatches *)
(* families: pre-cache chain, cache update, post-cache chain.  The         *)
(* recursion of fc_process_chain through fc_bit_jump_invoke is a stack of  *)
(* frames, one per C activation, each with its own `status'.               *)
(*                                                                         *)
(* The statuses are the C integers on purpose: fc_process_chain keeps the  *)
(* answers of matches and of targets in the same variable, and             *)
(* FC_MATCH_MATCHES and FC_TARGET_STOP are the same number.                *)
(*                                                                         *)
(* A match is the status it answers for the family at hand.  A target is a *)
(* record [kind, arg]: "jump" to the chain arg, "stop", "return", "write", *)
(* or "other", a plugin's target that answers arg.                         *)
(***************************************************************************)
EXTENDS Integers, Sequences, SequencesExt

CONSTANTS
  Blocks,       \* the <Chain> blocks a configuration is made of
  MaxBlocks,    \* bound: blocks in one configuration
  PreCache,     \* the chain named by the PreCacheChain option
  PostCache,    \* the chain named by the PostCacheChain option
  StackSize     \* bound: activations of fc_process_chain the C stack holds

FC_MATCH_MATCHES   == 1
FC_TARGET_CONTINUE == 0
FC_TARGET_STOP     == 1
FC_TARGET_RETURN   == 2
FC_ERROR           == -1

(***************************************************************************)
(* A block is [name, items]; an item is a rule [matches, targets], a       *)
(* default target [target], or [bad], one that cannot be created: an       *)
(* unknown option, match or target, or a create callback that fails.       *)
(***************************************************************************)
ASSUME BlocksAssumption ==
  /\ MaxBlocks \in Nat /\ StackSize \in Nat \ {0}
  /\ \A b \in Blocks : b.items # << >>

VARIABLES
  phase,    \* "config", "ready", "pre", "update", "post", "done";
            \* "exit": configuration refused; "crash": the C stack overflowed
            \* or freed memory was read
  chains,   \* chain_list_head: sequence of [name, rules, targets, freed]
  read,     \* number of blocks read so far
  ret,      \* cf_read's return value
  stack,    \* activations of fc_process_chain, innermost last
  log       \* what the dispatch did so far: targets invoked, "cache", "default"

chainvars == <<phase, chains, read, ret, stack, log>>

ChainInit ==
  /\ phase = "config" /\ chains = << >> /\ read = 0 /\ ret = 0
  /\ stack = << >> /\ log = << >>

-----------------------------------------------------------------------------
(* Reading the configuration.                                              *)

IsBad(item)  == "bad" \in DOMAIN item
IsRule(item) == "targets" \in DOMAIN item

\* Mutant: the sanity check of fc_config_add_rule is dropped.
AcceptedEvenEmpty(item) == ~IsBad(item)

(* fc_config_add_rule refuses a rule without a target. *)
Accepted(item) == ~IsBad(item) /\ (IsRule(item) => item.targets # << >>)

(* fc_chain_get_by_name: the index of the first chain of that name, or 0. *)
fc_chain_get_by_name(n) ==
  LET hits == {i \in DOMAIN chains : chains[i].name = n}
  IN  IF hits = {} THEN 0 ELSE CHOOSE i \in hits : \A j \in hits : i <= j

NewChain(n) == [name |-> n, rules |-> << >>, targets |-> << >>, freed |-> FALSE]

Extended(c, items) ==
  [c EXCEPT
    !.rules   = @ \o SelectSeq(items, IsRule),
    !.targets = @ \o [i \in 1..Len(SelectSeq(items, LAMBDA x : ~IsRule(x))) |->
                        SelectSeq(items, LAMBDA x : ~IsRule(x))[i].target]]

(* fc_free_chains frees the chain and every chain behind it in the list,
   and leaves the links to them as they are. *)
fc_free_chains(i) ==
  [j \in DOMAIN chains |-> IF j >= i THEN [chains[j] EXCEPT !.freed = TRUE]
                                     ELSE chains[j]]

(* The lookup walks the list: it runs into freed memory once there is some. *)
Dangling == \E i \in DOMAIN chains : chains[i].freed

fc_config_add_chain(b) ==
  LET i == fc_chain_get_by_name(b.name) IN
  /\ ~Dangling
  /\ IF \E k \in DOMAIN b.items : ~Accepted(b.items[k])
     THEN /\ ret' = -1
          /\ chains' = IF i = 0 THEN chains ELSE fc_free_chains(i)
     ELSE /\ ret' = ret
          /\ chains' = IF i = 0
                       THEN Append(chains, Extended(NewChain(b.name), b.items))
                       ELSE [chains EXCEPT ![i] = Extended(@, b.items)]
  /\ phase' = phase

(* cf_read goes on after a block that failed: the next lookup reads the
   freed chains.  It crashes, or finds something or nothing; ret stays. *)
fc_config_add_chain_dangling ==
  /\ Dangling
  /\ phase' \in {"config", "crash"}
  /\ UNCHANGED <<chains, ret>>

ReadBlock ==
  /\ phase = "config"
  /\ read < MaxBlocks
  /\ read' = read + 1
  /\ \/ \E b \in Blocks : fc_config_add_chain(b)
     \/ fc_config_add_chain_dangling
  /\ UNCHANGED <<stack, log>>

(* The daemon runs only with a configuration read without an error. *)
Configured == ret = 0

EndConfig ==
  /\ phase = "config"
  /\ phase' = IF Configured THEN "ready" ELSE "exit"
  /\ UNCHANGED <<chains, read, ret, stack, log>>

-----------------------------------------------------------------------------
(* fc_process_chain.                                                       *)

Activation(i) ==
  [chain |-> i, mode |-> "rules", rule |-> 1, target |-> 1,
   status |-> FC_TARGET_CONTINUE]

Top   == Last(stack)
Chain == chains[Top.chain]
Set(frame) == stack' = Append(Front(stack), frame)

(* A chain that ends while another one waits in `jump' hands its status to
   the jump target, which turns everything but STOP and errors into CONTINUE;
   the outermost one ends the dispatch's phase. *)
JumpStatus(s) ==
  IF s < 0 \/ s = FC_TARGET_STOP THEN s ELSE FC_TARGET_CONTINUE

(* After a target answered s: STOP and RETURN leave the loop over the
   targets, everything else (errors and unknown answers included) goes on. *)
Answered(frame, targets, s) ==
  [frame EXCEPT
    !.status = s,
    !.target = IF s \in {FC_TARGET_STOP, FC_TARGET_RETURN}
               THEN Len(targets) + 1 ELSE @ + 1]

Targets(frame) ==
  IF frame.mode = "default" THEN chains[frame.chain].targets
                            ELSE chains[frame.chain].rules[frame.rule].targets

(* How the dispatch goes on when its chain returned s. *)
AfterChain(s) ==
  IF phase = "pre" /\ s # FC_TARGET_STOP THEN "update" ELSE "done"

fc_return(s) ==
  IF Len(stack) = 1
  THEN stack' = << >> /\ phase' = AfterChain(s)
  ELSE LET caller == stack[Len(stack) - 1] IN
       /\ stack' = Append(SubSeq(stack, 1, Len(stack) - 2),
                          Answered(caller, Targets(caller), JumpStatus(s)))
       /\ phase' = phase

(* The matches of a rule in order; the first that does not match, or fails,
   sends the chain to the next rule.  `status' keeps the last answer. *)
TestRule ==
  /\ stack # << >> /\ Top.mode = "rules"
  /\ Top.rule <= Len(Chain.rules)
  /\ LET m == Chain.rules[Top.rule].matches IN
     IF \E k \in DOMAIN m : m[k] # FC_MATCH_MATCHES
     THEN Set([Top EXCEPT !.rule = @ + 1, !.status = FC_TARGET_CONTINUE])
     ELSE Set([Top EXCEPT !.mode = "targets", !.target = 1,
                          !.status = IF m = << >> THEN FC_TARGET_CONTINUE
                                                  ELSE FC_MATCH_MATCHES])
  /\ UNCHANGED <<phase, chains, read, ret, log>>

StatusOf(t) == CASE t.kind = "stop"   -> FC_TARGET_STOP
                 [] t.kind = "return" -> FC_TARGET_RETURN
                 [] t.kind = "write"  -> FC_TARGET_CONTINUE
                 [] t.kind = "other"  -> t.arg
                 [] t.kind = "jump"   -> FC_ERROR     \* no such chain

(* One target of a rule or one default target: `jump' calls
   fc_process_chain again, which overflows the stack sooner or later when
   the chains jump in a circle; the others answer at once. *)
InvokeTarget ==
  /\ stack # << >> /\ Top.mode \in {"targets", "default"}
  /\ Top.target <= Len(Targets(Top))
  /\ LET t    == Targets(Top)[Top.target]
         dest == IF t.kind = "jump" THEN fc_chain_get_by_name(t.arg) ELSE 0
     IN  /\ log' = Append(log, t)
         /\ IF dest = 0
            THEN /\ Set(Answered(Top, Targets(Top), StatusOf(t)))
                 /\ phase' = phase
            ELSE IF Len(stack) < StackSize
            THEN stack' = Append(stack, Activation(dest)) /\ phase' = phase
            ELSE stack' = << >> /\ phase' = "crash"
  /\ UNCHANGED <<chains, read, ret>>

(* Behind the last target of a rule: STOP and RETURN end the chain. *)
EndRule ==
  /\ stack # << >> /\ Top.mode = "targets"
  /\ Top.target > Len(Targets(Top))
  /\ IF Top.status \in {FC_TARGET_STOP, FC_TARGET_RETURN}
     THEN fc_return(Top.status)
     ELSE Set([Top EXCEPT !.mode = "rules", !.rule = @ + 1]) /\ phase' = phase
  /\ UNCHANGED <<chains, read, ret, log>>

EndRules ==
  /\ stack # << >> /\ Top.mode = "rules"
  /\ Top.rule > Len(Chain.rules)
  /\ Set([Top EXCEPT !.mode = "default", !.target = 1,
                     !.status = FC_TARGET_CONTINUE])
  /\ UNCHANGED <<phase, chains, read, ret, log>>

EndChain ==
  /\ stack # << >> /\ Top.mode = "default"
  /\ Top.target > Len(Targets(Top))
  /\ fc_return(IF Top.status = FC_TARGET_STOP THEN FC_TARGET_STOP
                                              ELSE FC_TARGET_CONTINUE)
  /\ UNCHANGED <<chains, read, ret, log>>

fc_process_chain == TestRule \/ InvokeTarget \/ EndRule \/ EndRules \/ EndChain

-----------------------------------------------------------------------------
(* plugin_dispatch_metric_internal.                                        *)

BeginDispatch ==
  /\ phase = "ready"
  /\ LET pre == fc_chain_get_by_name(PreCache) IN
     IF pre = 0 THEN phase' = "update" /\ UNCHANGED stack
                ELSE phase' = "pre" /\ stack' = <<Activation(pre)>>
  /\ UNCHANGED <<chains, read, ret, log>>

UpdateCache ==
  /\ phase = "update"
  /\ LET post == fc_chain_get_by_name(PostCache) IN
     IF post = 0
     THEN /\ log' = log \o <<"cache", "default">>
          /\ phase' = "done" /\ UNCHANGED stack
     ELSE /\ log' = Append(log, "cache")
          /\ phase' = "post" /\ stack' = <<Activation(post)>>
  /\ UNCHANGED <<chains, read, ret>>

(* The write thread takes the next family: the chains keep no state. *)
EndDispatch ==
  /\ phase = "done"
  /\ phase' = "ready" /\ log' = << >>
  /\ UNCHANGED <<chains, read, ret, stack>>

Dispatch == BeginDispatch \/ fc_process_chain \/ UpdateCache \/ EndDispatch

ChainNext == ReadBlock \/ EndConfig \/ Dispatch

-----------------------------------------------------------------------------
(* Properties.                                                             *)

ChainTypeOK ==
  /\ phase \in {"config", "ready", "pre", "update", "post", "done", "exit", "crash"}
  /\ read \in 0..MaxBlocks /\ ret \in {0, -1}
  /\ Len(stack) \in 0..StackSize
  /\ stack # << >> <=> phase \in {"pre", "post"}
  /\ \A k \in DOMAIN stack :
       /\ stack[k].chain \in DOMAIN chains
       /\ stack[k].rule \in 1..Len(chains[stack[k].chain].rules) + 1
       /\ stack[k].mode # "rules" =>
            stack[k].target \in 1..Len(Targets(stack[k])) + 1

(* What the configuration says, without a stack and without statuses.  For
   the family at hand a chain is a flat list: the targets of its rules whose
   matches all apply, then its default targets. *)
Applies(rule) == \A k \in DOMAIN rule.matches : rule.matches[k] = FC_MATCH_MATCHES

Flat(c) ==
  FlattenSeq([r \in DOMAIN c.rules |->
                IF Applies(c.rules[r]) THEN c.rules[r].targets ELSE << >>])
  \o c.targets

(* The beginning of s up to and with its first element for which P holds. *)
UpTo(s, P(_)) ==
  LET stops == {k \in DOMAIN s : P(s[k])}
  IN  IF stops = {} THEN s
      ELSE SubSeq(s, 1, CHOOSE k \in stops : \A j \in stops : k <= j)

Returns(t) == t.kind = "return" \/ (t.kind = "other" /\ t.arg = FC_TARGET_RETURN)
Stops(t)   == t.kind = "stop" \/ (t.kind = "other" /\ t.arg = FC_TARGET_STOP)

(* Jumps replaced by the chains they name, d levels deep; `return' cuts off
   the rest of its own chain only. *)
Called[d \in 0..StackSize] ==
  [n \in {chains[i].name : i \in DOMAIN chains} |->
     LET c == chains[CHOOSE i \in DOMAIN chains : chains[i].name = n]
         body == UpTo(Flat(c), Returns)
     IN  FlattenSeq([k \in DOMAIN body |->
           IF body[k].kind = "jump" /\ d > 0 /\ body[k].arg \in DOMAIN Called[d - 1]
           THEN <<body[k]>> \o Called[d - 1][body[k].arg]
           ELSE <<body[k]>>])]

(* `stop' cuts off everything that follows, in every chain. *)
RunOf(n) == UpTo(Called[StackSize][n], Stops)

Configures(n) == \E i \in DOMAIN chains : chains[i].name = n

Expected ==
  LET pre  == IF Configures(PreCache) THEN RunOf(PreCache) ELSE << >>
      post == IF Configures(PostCache) THEN RunOf(PostCache) ELSE <<"default">>
  IN  IF \E k \in DOMAIN pre : Stops(pre[k]) THEN pre
      ELSE pre \o <<"cache">> \o post

(* Chains that jump in a circle: a set of chains each of which names another
   one of the set (or itself) in a jump. *)
JumpsTo(i, j) ==
  \E t \in Range(chains[i].targets)
           \cup UNION {Range(chains[i].rules[r].targets) : r \in DOMAIN chains[i].rules} :
     t.kind = "jump" /\ t.arg = chains[j].name

Circular ==
  \E S \in (SUBSET DOMAIN chains) \ {{}} : \A i \in S : \E j \in S : JumpsTo(i, j)

(* A dispatch invokes exactly the targets the configuration names, in that
   order, and updates the cache between the two chains unless the pre-cache
   chain stopped: `stop' ends everything at whatever depth of jumps, `return'
   only the chain it stands in, a match or target that fails nothing but
   itself (fc_process_chain, fc_bit_jump_invoke).  fc_process_chain calls
   itself through `jump' without a limit; with as many activations as there
   are chains the stack suffices, unless the configuration jumps in a circle.
   And although fc_config_add_chain frees a chain that is still linked when a
   second block of its name fails, no family is dispatched with such a list:
   cf_read remembers the failure and the daemon gives up. *)
FollowsConfiguration ==
  /\ ChainTypeOK
  /\ phase = "done" => log = Expected
  /\ phase = "crash" => Circular \/ Dangling
  /\ phase \in {"ready", "pre", "update", "post", "done"} => ~Dangling
=============================================================================
