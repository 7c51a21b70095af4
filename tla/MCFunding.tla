----------------------------- MODULE MCFunding -----------------------------
EXTENDS Funding
=============================================================================
