---------------------------- MODULE MCTokenExpiry ----------------------------
\* TokenExpiry with the constants of dccommon/utils.py and a one-hour token.
EXTENDS TokenExpiry

MCHorizon == 2 * TokenLife

=============================================================================
