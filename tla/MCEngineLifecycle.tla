------------------------- MODULE MCEngineLifecycle -------------------------
EXTENDS EngineLifecycle, TLC

CONSTANTS a, b, c, ok, other   \* three nodes, two configurations

\* Definitions that no combination of makes a cycle, over three nodes: the
\* removal of a has to reach b and c.
OrderedCallable ==
    (a :> {[inputs |-> {}, config |-> ok]}) @@
    (b :> {[inputs |-> {a}, config |-> ok], [inputs |-> {}, config |-> ok]}) @@
    (c :> {[inputs |-> {a}, config |-> ok]})

\* A caller gives b, which reads a, another configuration and no inputs.
ReconfiguringCallable ==
    (a :> {[inputs |-> {}, config |-> ok]}) @@
    (b :> {[inputs |-> {a}, config |-> ok], [inputs |-> {}, config |-> other]})
=============================================================================
