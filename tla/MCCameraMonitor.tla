---------------------- MODULE MCCameraMonitor ----------------------
EXTENDS CameraMonitor

\* A duration of two intervals and a bit, and none.
DurationsChosen == {5, NoLimit}
=============================================================================
