---------------------------- MODULE MCToolCalls -----------------------------
(* Instances of ToolCalls: one tool of each branch of the loop.            *)
EXTENDS ToolCalls

OneOfEach == {"save_memory", "send_email", "mcp_server__tool", "write_file",
              "run_shell_command", "browse_web"}
=============================================================================
