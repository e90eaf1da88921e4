------------------------------ MODULE MCDurable ------------------------------
EXTENDS ConversionProps

\* Fibers that fork, join and collect, objects passed between them, globals.
Sharing ==
    [forms |-> {"Int", "Identifier", "Function", "AssignVarK", "ObjectK", "MemberK", "Perform"},
     effects |-> {Fork, Join, Gc}, allocations |-> 8]

\* Handlers, captured continuations and calls.
Handling ==
    [forms |-> {"Undefined", "Identifier", "Handler", "HandleWithK", "CalleeK", "Perform"},
     effects |-> {Ask, Gc}, allocations |-> 12]

\* Closures and the environments of their calls.
Calling ==
    [forms |-> {"Identifier", "Function", "CalleeK", "AssignVarK", "Perform"},
     effects |-> {Fork, Gc}, allocations |-> 9]

\* Checkpoints of all that.
Saving ==
    [forms |-> {"Int", "String", "Identifier", "Function", "ObjectK", "Perform"},
     effects |-> {Fork, Join, Snapshot}, allocations |-> 7]

MCFamilies == {Sharing, Handling, Calling, Saving}

\* Closures forked as soon as they are made.
MCForking == {[forms |-> {"Undefined", "Function", "CalleeK", "Perform"},
               effects |-> {Fork}, allocations |-> 11]}
=============================================================================
