----------------------------- MODULE MCHookDaemon -----------------------------
EXTENDS HookDaemon

CONSTANT h1

MCToday == <<"today">>
MCWeek == <<>>
=============================================================================
