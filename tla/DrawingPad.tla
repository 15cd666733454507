----------------------------- MODULE DrawingPad ------------------------------
(***************************************************************************)
(* example/opencv/demo_opencv.cpp: rectangles, lines and curves that are   *)
(* drawn with the mouse, and an animation of them.  Mouse events come from *)
(* inside waitKey(), in the loop of main() and in that of the animation.   *)
(* A canvas is the sequence of the strokes that were drawn on it; the      *)
(* animation is followed without its turning and scaling, and what is      *)
(* shown while the button is held is left out.                             *)
(***************************************************************************)
EXTENDS TaskChain, Images, AsioEcho
Series == INSTANCE SequencesExt

CONSTANTS
    Points,     \* points of the window
    MaxShapes,  \* bound on the shapes
    MaxCurve    \* bound on the points of a curve

ASSUME PadAssumption == {MaxShapes, MaxCurve} \subseteq Nat /\ Points # {}

VARIABLES
    canvas,       \* strokes on it: <<mode, from, to>>
    shapes,       \* <<mode, points>>
    isDrawing, drawMode, startPoint, curvePoints,
    animCanvas,   \* strokes of the last frame of the animation
    padAt,        \* "main", "animation" or "over"
    pressedMode   \* history: drawMode when the button was pressed, 0 while it is not

padVars == <<canvas, shapes, isDrawing, drawMode, startPoint, curvePoints, animCanvas, padAt,
             pressedMode>>

Origin == CHOOSE p \in Points : TRUE

PadInit ==
    /\ canvas = <<>> /\ shapes = <<>>
    /\ isDrawing = FALSE /\ drawMode = 0
    /\ startPoint = Origin /\ curvePoints = <<>>
    /\ animCanvas = <<>>
    /\ padAt = "main"
    /\ pressedMode = 0

\* rectangle(), line(), or a line from each point of a curve to the next
Strokes(mode, points) ==
    IF mode = 2 THEN [i \in 1 .. Len(points) - 1 |-> <<2, points[i], points[i + 1]>>]
    ELSE <<<<mode, points[1], points[2]>>>>

\* EVENT_LBUTTONDOWN
Press(p) ==
    /\ padAt # "over"
    /\ startPoint' = p
    /\ curvePoints' = IF drawMode = 2 THEN <<p>> ELSE curvePoints
    /\ isDrawing' = TRUE
    /\ pressedMode' = drawMode
    /\ UNCHANGED <<canvas, shapes, drawMode, animCanvas, padAt>>

\* EVENT_MOUSEMOVE: only a curve remembers it.
Move(p) ==
    /\ padAt # "over"
    /\ isDrawing
    /\ drawMode = 2 => Len(curvePoints) < MaxCurve
    /\ curvePoints' = IF drawMode = 2 THEN Append(curvePoints, p) ELSE curvePoints
    /\ UNCHANGED <<canvas, shapes, isDrawing, drawMode, startPoint, animCanvas, padAt,
                   pressedMode>>

\* EVENT_LBUTTONUP: a curve ends where the mouse was moved to last.
Release(p) ==
    /\ padAt # "over"
    /\ isDrawing
    /\ Len(shapes) < MaxShapes
    /\ isDrawing' = FALSE
    /\ LET points == IF drawMode = 2 THEN curvePoints ELSE <<startPoint, p>>
       IN /\ canvas' = canvas \o Strokes(drawMode, points)
          /\ shapes' = Append(shapes, <<drawMode, points>>)
    /\ pressedMode' = 0
    /\ UNCHANGED <<drawMode, startPoint, curvePoints, animCanvas, padAt>>

\* "m", also while the button is held
SwitchMode ==
    /\ padAt = "main"
    /\ drawMode' = (drawMode + 1) % 3
    /\ UNCHANGED <<canvas, shapes, isDrawing, startPoint, curvePoints, animCanvas, padAt,
                   pressedMode>>

\* A mistake that the property below must tell from the code: only the canvas is cleared.
Bug_Clear ==
    /\ padAt = "main"
    /\ canvas' = <<>>
    /\ UNCHANGED <<shapes, isDrawing, drawMode, startPoint, curvePoints, animCanvas, padAt,
                   pressedMode>>

\* "c"
Clear ==
    /\ padAt = "main"
    /\ canvas' = <<>> /\ shapes' = <<>>
    /\ UNCHANGED <<isDrawing, drawMode, startPoint, curvePoints, animCanvas, padAt, pressedMode>>

\* A mistake that the property below must tell from the code: a curve without its last point.
Bug_DrawShape(s) == Strokes(s[1], IF s[1] = 2 /\ Len(s[2]) > 1 THEN Series!Front(s[2]) ELSE s[2])

\* What a frame draws of a shape: nothing of one with less than two points
DrawShape(s) == IF Len(s[2]) < 2 THEN <<>> ELSE Strokes(s[1], s[2])

DrawFrame == animCanvas' = Series!FlattenSeq([k \in DOMAIN shapes |-> DrawShape(shapes[k])])

\* "a": createAnimation() draws its first frame before it asks for a key.
Animate ==
    /\ padAt = "main"
    /\ shapes # <<>>
    /\ padAt' = "animation"
    /\ DrawFrame
    /\ UNCHANGED <<canvas, shapes, isDrawing, drawMode, startPoint, curvePoints,
                   pressedMode>>

\* Another frame; the mouse may have drawn since.
NextFrame ==
    /\ padAt = "animation"
    /\ DrawFrame
    /\ UNCHANGED <<canvas, shapes, isDrawing, drawMode, startPoint, curvePoints,
                   padAt, pressedMode>>

\* ESC ends the animation, and main() shows the canvas again; in main(), as closing the
\* window does, the program.
Escape ==
    /\ padAt # "over"
    /\ padAt' = IF padAt = "animation" THEN "main" ELSE "over"
    /\ animCanvas' = <<>>
    /\ UNCHANGED <<canvas, shapes, isDrawing, drawMode, startPoint, curvePoints, pressedMode>>

PadNext ==
    \/ \E p \in Points : Press(p) \/ Move(p) \/ Release(p)
    \/ SwitchMode \/ Clear \/ Animate \/ NextFrame \/ Escape

PadSpec == PadInit /\ [][PadNext]_padVars

-----------------------------------------------------------------------------
(* Properties *)

PadTypeOK ==
    /\ canvas \in Seq((0 .. 2) \X Points \X Points)
    /\ \A k \in DOMAIN shapes : shapes[k][1] \in 0 .. 2 /\ shapes[k][2] \in Seq(Points)
    /\ drawMode \in 0 .. 2 /\ isDrawing \in BOOLEAN
    /\ padAt \in {"main", "animation", "over"}

\* The canvas, to which strokes are added one by one, shows what drawing all the shapes anew
\* would show, in the same order.
CanvasShowsShapes ==
    canvas = Series!FlattenSeq([k \in DOMAIN shapes |-> Strokes(shapes[k][1], shapes[k][2])])

\* A curve that is drawn with the button pressed in the mode of curves begins where it was
\* pressed, also if the mode is left and entered again meanwhile.  Of one that was begun in
\* another mode this cannot be said: it goes on from where the last curve ended.
CurveBeginsAtPress ==
    isDrawing /\ drawMode = 2 /\ pressedMode = 2 =>
      curvePoints # <<>> /\ Head(curvePoints) = startPoint

\* The animation shows the canvas as it was at its last frame, to which the mouse may only
\* have added since, and it never runs without a shape.
AnimationShowsCanvas ==
    padAt = "animation" => Series!IsPrefix(animCanvas, canvas) /\ shapes # <<>>

\* What is drawn, what is stored and what is animated are the same picture.
PadCorrect == PadTypeOK /\ CanvasShowsShapes /\ CurveBeginsAtPress /\ AnimationShowsCanvas

\* The examples do what they show, in the order and the time that they show.
ExamplesCorrect == ChainCorrect /\ ImagesCorrect /\ EchoCorrect /\ PadCorrect
=============================================================================
