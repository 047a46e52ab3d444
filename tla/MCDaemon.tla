------------------------------ MODULE MCDaemon ------------------------------
(* Three plugins: `a' with every kind of callback, whose shutdown callback
   unregisters its entries; `n' that receives notifications; `t' with a thread
   of its own, shut down after the others, whose read callback has another name
   than its init callback.  The read callbacks and the thread of `t' start the
   detached thread `d'. *)
EXTENDS Daemon

MCRank == [a |-> 1, n |-> 2, t |-> 3]
MCHas == [k \in Kinds |->
            CASE k = "init"         -> {"a", "t"}
              [] k = "read"         -> {"a", "t"}
              [] k = "write"        -> {"a", "t"}
              [] k = "missing"      -> {"a", "t"}
              [] k = "flush"        -> {"a", "t"}
              [] k = "notification" -> {"a", "n"}
              [] k = "shutdown"     -> {"a", "n", "t"}]
=============================================================================
