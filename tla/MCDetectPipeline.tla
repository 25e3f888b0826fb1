-------------------------- MODULE MCDetectPipeline --------------------------
(* Two tasks, two cameras: a task with two cameras and a camera with two    *)
(* tasks.  One update after the start is enough to change, enable and       *)
(* disable; it meets every state of the camera threads.  A lookup that       *)
(* fails leaves out one task, both or none.                                  *)
EXTENDS DetectPipeline
=============================================================================
