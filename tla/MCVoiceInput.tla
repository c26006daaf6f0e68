---------------------------- MODULE MCVoiceInput ----------------------------
EXTENDS VoiceInput
=============================================================================
