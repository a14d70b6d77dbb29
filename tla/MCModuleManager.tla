-------------------------- MODULE MCModuleManager --------------------------
EXTENDS ModuleManager

CONSTANTS a, b, c

Edges(E) == [m \in Modules |-> {d \in Modules : <<m, d>> \in E}]

\* A chain, two on one, one on two, and a cycle.
Shapes ==
    {Edges(E) : E \in {{<<b, a>>, <<c, b>>}, {<<b, a>>, <<c, a>>}, {<<c, a>>, <<c, b>>},
                        {<<a, b>>, <<b, a>>}}}

Chain == {Edges({<<b, a>>})}
=============================================================================
