---------------------------- MODULE ThumbnailSizes ----------------------------
(***************************************************************************)
(* The arithmetic of a thumbnail (thumbnail.go:109-133 and 236-253): the   *)
(* size an image is scaled to, and the box that is cut out of it.  The     *)
(* products are assumed to fit the 64 bits of an int.                      *)
(***************************************************************************)
EXTENDS Integers

AtLeastOne(n) == IF n >= 1 THEN n ELSE 1
Least(m, n) == IF m <= n THEN m ELSE n

\* aspect, as <<width, height>>.
aspect(srcW, srcH, maxW, maxH) ==
  IF maxW * srcH < maxH * srcW
    THEN <<maxW, AtLeastOne((maxW * srcH) \div srcW)>>
    ELSE <<AtLeastOne((maxH * srcW) \div srcH), maxH>>

\* Generate's methodScale: never upscaled.
ScaledTo(srcW, srcH, maxW, maxH) ==
  LET size == aspect(srcW, srcH, maxW, maxH)
  IN  <<Least(srcW, size[1]), Least(srcH, size[2])>>

\* cropBox: the size to scale to, and where the w by h box begins in it.
cropBox(srcW, srcH, w, h) ==
  IF w * srcH > h * srcW
    THEN LET scaledH == (w * srcH) \div srcW
         IN  [width |-> w, height |-> scaledH, left |-> 0, top |-> (scaledH - h) \div 2]
    ELSE LET scaledW == (h * srcW) \div srcH
         IN  [width |-> scaledW, height |-> h, left |-> (scaledW - w) \div 2, top |-> 0]

------------------------------------------------------------------------------
Positive == Nat \ {0}

\* thumbnail.go:109-112: the scaled size fits the box that was asked for, and touches it, and
\* its other side is the aspect ratio's, rounded down to a whole number but never to nothing.
FitsBox(srcW, srcH, maxW, maxH) ==
  LET size == aspect(srcW, srcH, maxW, maxH)
      w == size[1]
      h == size[2]
  IN  /\ w \in 1 .. maxW /\ h \in 1 .. maxH
      /\ \/ w = maxW /\ (h = 1 \/ h * srcW <= maxW * srcH) /\ maxW * srcH < (h + 1) * srcW
         \/ h = maxH /\ (w = 1 \/ w * srcH <= maxH * srcW) /\ maxH * srcW < (w + 1) * srcH

\* thumbnail.go:244-247: where the two sides are cut to the source's, both are: a source that
\* is smaller than the box is not stretched in one direction.
NotStretched(srcW, srcH, maxW, maxH) ==
  LET size == aspect(srcW, srcH, maxW, maxH)
  IN  (size[1] > srcW => size[2] >= srcH) /\ (size[2] > srcH => size[1] >= srcW)

\* thumbnail.go:119-121: the scaled image covers the box, and the box lies in the middle of it.
BoxIsInside(srcW, srcH, w, h) ==
  LET crop == cropBox(srcW, srcH, w, h)
      right == crop.width - w - crop.left
      bottom == crop.height - h - crop.top
  IN  /\ crop.left >= 0 /\ right - crop.left \in {0, 1}
      /\ crop.top >= 0 /\ bottom - crop.top \in {0, 1}

=============================================================================
