------------------------------- MODULE MCPomodoro -------------------------------
EXTENDS Pomodoro
=============================================================================
