---------------------------- MODULE MCSessionGate ----------------------------
\* A user and somebody who may become an admin, two keys, one request at a time
\* besides the browser's page.
EXTENDS SessionGate
=============================================================================
