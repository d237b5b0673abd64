----------------------------- MODULE MCLcdPanel -----------------------------
(* LcdPanel for TLC.  All keys of some pages at a time over a link without *)
(* faults, and the way to the network settings with each kind of fault.    *)
EXTENDS LcdPanel, TLC

KeysFor(some) == {k \in some \X (0..4) : k[2] \in KeysOf(k[1])}

Most(crowded, late, lost, restart) ==
  "crowded" :> crowded @@ "late" :> late @@ "lost" :> lost @@ "restart" :> restart

Looking(some) == [keys |-> KeysFor(some), most |-> Most(0, 0, 0, 0)]

Troubled(crowded, late, lost, restart) ==
  [keys |-> {<<MAIN, 0>>, <<OPTIONS, 0>>, <<OPTIONS, 1>>, <<NET, 0>>, <<NET, 1>>},
   most |-> Most(crowded, late, lost, restart)]

SomeScenes ==
  { Looking({MAIN, NODE, VALUES}), Looking({MAIN, PASSWORD, OPERATOR}),
    Looking({OPTIONS, GROUPS, STEPS}), Looking({OPTIONS, MODULES}),
    Looking({OPTIONS, LIMITS}), Troubled(1, 0, 0, 1), Troubled(0, 1, 1, 1), Troubled(1, 1, 0, 0) }
=============================================================================
