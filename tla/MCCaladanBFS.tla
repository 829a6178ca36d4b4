----------------------------- MODULE MCCaladanBFS -----------------------------
(* CaladanBFS for TLC: graphs on four vertices that are searched in one      *)
(* direction or both, with vertices that several workers reach and one that  *)
(* none does.                                                                *)
EXTENDS CaladanBFS, TLC

Regions == {"InitParent", "QueueToBitmap", "BUStep", "BitmapToQueue", "TDStep", "Cleanup"}

Graph(lists) == lists @@ [u \in 0 .. 3 |-> {}]

SomeGraphs ==
  {Graph(0 :> {1, 2} @@ 1 :> {0, 3} @@ 2 :> {0, 3} @@ 3 :> {1, 2}),
   Graph(0 :> {1} @@ 1 :> {2, 0} @@ 3 :> {1, 2})}

================================================================================
